---------------------------- MODULE Spec2Model ----------------------------
(***************************************************************************)
(* Model of images_sort: the per-directory worker pool of                  *)
(* images_manager.rs (sort_images_in_dir), the duplicate-safe placement   *)
(* (check_for_duplicate_and_rename), the directory cache of               *)
(* directories.rs (create_subdir) and the atomic counters of reporting.rs; *)
(* the geocoding cache of place_finder.rs (find_place) as                  *)
(* analyze_exif_data calls it, the sanitizer Directory::parse of exif.rs,  *)
(* the statistics of Reporting (places, devices, date range) and the loop  *)
(* of main over the directories.                                           *)
(*                                                                         *)
(* A path is a sequence of components; a component (a file or directory   *)
(* name) is a sequence of tokens, where "." is a token of its own so that *)
(* std::path's splitting at the last dot is computed, not assumed.        *)
(***************************************************************************)
EXTENDS Integers, Sequences, FiniteSets, TLC

(***************************************************************************)
(* Bounds of the model                                                     *)
(***************************************************************************)
\* number of files returned by get_files_from_dir for the directory
NumFiles == 2
\* how many values of the random range 100..100000 the model draws from
NumRand == 2
\* sequential calls of check_for_duplicate_and_rename in the resolver spec
MaxCalls == 3
\* longest string given to Directory::parse in the sanitizer spec
MaxStrLen == 3
\* applications of Directory::parse to its own result in the sanitizer spec
MaxParses == 2

(***************************************************************************)
(* Program constants                                                       *)
(***************************************************************************)
\* rayon::ThreadPoolBuilder::new().num_threads(4)
NumThreads == 4
\* for attempt in 0..1000
MaxAttempts == 1000
\* rand::Rng::random_range(&mut rand::rng(), 100..100000)
RandLow == 100
RandHigh == 100000
\* LruCache::new(NonZeroUsize::new(1000).unwrap())
GeoCapacity == 1000

ErrIsDirMsg == "Error when checking for duplication in target directory"
ErrExhaustedMsg == "Unable to find a unique filename after 1000 attempts"

(***************************************************************************)
(* std::path, as far as the program uses it                                *)
(***************************************************************************)
ROOT == <<"/">>

is_absolute(p) == Len(p) > 0 /\ p[1] = ROOT

\* Path::join: an absolute argument replaces the base
join(base, p) == IF is_absolute(p) THEN p ELSE base \o p

parent(p) == SubSeq(p, 1, Len(p) - 1)

file_name(p) == p[Len(p)]

\* p is strictly below base
starts_with(p, base) == Len(p) > Len(base) /\ SubSeq(p, 1, Len(base)) = base

\* index of the last "." token of a name, 0 when there is none
LastDot(name) ==
    LET dots == {i \in 1..Len(name) : name[i] = "."}
    IN  IF dots = {} THEN 0 ELSE CHOOSE i \in dots : \A j \in dots : j <= i

\* Path::file_stem: the whole name when it has no dot or only a leading dot,
\* otherwise the part before the final dot
file_stem(name) ==
    IF LastDot(name) <= 1 THEN name ELSE SubSeq(name, 1, LastDot(name) - 1)

\* Path::extension as a set: {} is None, {e} is Some(e)
extension(name) ==
    IF LastDot(name) <= 1 THEN {}
    ELSE {SubSeq(name, LastDot(name) + 1, Len(name))}

\* PathBuf::set_extension: truncate the name to its file_stem, then add
\* "." and the extension
set_extension(name, ext) ==
    file_stem(name) \o (IF ext = <<>> THEN <<>> ELSE <<".">> \o ext)

with_file_name(p, name) == parent(p) \o <<name>>

\* the values random_range can return, cut to the first NumRand of them
RandomRange == {n \in RandLow..(RandLow + NumRand - 1) : n < RandHigh}

\* format!("{}_duplicate_{}", stem, random_num)
new_filename(name, n) == file_stem(name) \o <<"_duplicate_", ToString(n)>>

\* the candidate path built by one iteration of the loop
NewPath(file, n) ==
    LET ext == extension(file_name(file))
        fname == new_filename(file_name(file), n)
    IN  with_file_name(file,
            IF ext = {} THEN fname
            ELSE set_extension(fname, CHOOSE e \in ext : TRUE))


(***************************************************************************)
(* State                                                                   *)
(***************************************************************************)
VARIABLES
    configuration,      \* GlobalConfiguration, read-only during the run
    files,              \* the disk: path of each regular file -> its content
    dirs,               \* the disk: paths of the directories
    CREATED_DIRS_CACHE, \* directories.rs: set of paths create_subdir made
    NB,                 \* reporting.rs: the AtomicU32 counters, by name
    errors_details,     \* reporting.rs: Reporting.errors_details
    task,               \* the closure of par_iter().for_each, per file
    batch,              \* for_each: "running", "returned" or "panicked"
    start_NB,           \* the counters when sort_images_in_dir was entered
    credit,             \* per file, the increments its closure performed
    d_pc,               \* resolver spec: position of the current call
    d_file,             \* resolver spec: the path the calls are made with
    d_attempt,          \* resolver spec: candidate existence checks so far
    d_result,           \* resolver spec: result of the last call
    d_calls,            \* resolver spec: completed calls
    d_log,              \* resolver spec: replacement paths returned so far
    d_scenario,         \* resolver spec: the calls so far are the test's loop
    GEOCODING_CACHE,    \* place_finder.rs: the LruCache, most recent first
    g_task,             \* geocoding spec: per file, analyze_exif_data's position
    g_log,              \* geocoding spec: the cache and search events so far
    g_prefill,          \* geocoding spec: entries cached before this directory
    p_pc,               \* sanitizer spec: number of applications of parse
    p_input,            \* sanitizer spec: the string given to Directory::parse
    p_output,           \* sanitizer spec: the results of the applications
    REPORTING,          \* reporting.rs: the statistics behind REPORTING_WRAPPER
    r_dates,            \* date range spec: the dates passed so far, in order
    m_pc,               \* main spec: position of main in its directory loop
    m_dir,              \* main spec: index in all_directories of the directory
    m_task,             \* main spec: per directory and file, the closure's state
    m_result,           \* main spec: per directory, what sort_images_in_dir returned
    m_setup,            \* main spec: what create_sorted_images_dir returned
    m_summary,          \* main spec: what print_reporting printed, if it did
    q_task,             \* pool spec: per file of a long list, the closure's state
    t_tree,             \* listing spec: the source tree, parent and kind per node
    t_result,           \* listing spec: what get_subdirectories_recursive returned
    l_stage,            \* lock spec: per worker, the part of the closure it is in
    l_todo,             \* lock spec: per worker, the operations left in that part
    l_held              \* lock spec: per worker, the locks held, in acquisition order

pipeVars == <<configuration, CREATED_DIRS_CACHE, errors_details, task, batch,
              start_NB, credit>>
dupVars == <<d_pc, d_file, d_attempt, d_result, d_calls, d_log, d_scenario>>
geoVars == <<GEOCODING_CACHE, g_task, g_log, g_prefill>>
parseVars == <<p_pc, p_input, p_output>>
dateVars == <<r_dates>>
mainVars == <<m_pc, m_dir, m_task, m_result, m_setup, m_summary>>
poolVars == <<q_task>>
treeVars == <<t_tree, t_result>>
lockVars == <<l_stage, l_todo, l_held>>
vars == <<configuration, files, dirs, CREATED_DIRS_CACHE, NB, errors_details,
          task, batch, start_NB, credit, d_pc, d_file, d_attempt, d_result,
          d_calls, d_log, d_scenario, GEOCODING_CACHE, g_task, g_log,
          g_prefill, p_pc, p_input, p_output, REPORTING, r_dates, m_pc, m_dir,
          m_task, m_result, m_setup, m_summary, q_task, t_tree, t_result,
          l_stage, l_todo, l_held>>

FileIdx == 1..NumFiles

CounterNames == {"DIRECTORIES", "IMAGES", "SORTED_IMAGES", "UNSORTED_IMAGES",
                 "ERROR_ON_IMAGES", "DUPLICATES_RENAMED"}

\* file names of the directory, all distinct as the entries of one directory
\* are: a plain name, a name an earlier run of the tool left behind, and
\* names with a dot inside the stem
FileName(i) ==
    CASE i = 1 -> <<"IMG", ".", "jpg">>
      [] i = 2 -> <<"IMG", "_duplicate_", ToString(RandLow), ".", "jpg">>
      [] OTHER -> <<"IMG", ".", ToString(i), ".", "jpg">>

\* the paths get_files_from_dir returns: read_dir entries, dir joined with
\* the entry's name
SourceFile(i) == join(configuration.source_directory, <<FileName(i)>>)

\* the bytes of source file i; "" is a file truncated to nothing
Content(i) == ToString(i)

Exists(p) == p \in DOMAIN files \/ p \in dirs

\* p and its ancestors, what a recursive DirBuilder creates
Prefixes(p) == {SubSeq(p, 1, k) : k \in 1..Len(p)} \ {<<ROOT>>}


(***************************************************************************)
(* The state when sort_images_in_dir is entered for one directory          *)
(***************************************************************************)
SortedRoot == << <<"Images">> >>
UnsortedRoot == SortedRoot \o << <<"Unsorted">> >>

\* the metadata an image of the batch yields (exif.rs test_get_exif_data)
YearMonth == "2008 10"
Place == "Arezzo"
Device == "COOLPIXP6000"

\* the directory sort_image_from_exif_data files such an image under
DestinationDir(use_device) ==
    SortedRoot \o << <<YearMonth>>, <<Place>> >>
        \o (IF use_device THEN << <<Device>> >> ELSE <<>>)

\* year_month as update_date_range compares it: character by character
YearMonthChars == <<"2", "0", "0", "8", " ", "1", "0">>

\* steps: the operations the closure has performed for its file, in order,
\* each with its outcome or argument and the locks held while it ran
NoTask ==
    [pc |-> "todo", result |-> "", level |-> 0, buf |-> <<>>, new_dir |-> <<>>,
     to |-> <<>>, reason |-> "", steps |-> <<>>]

\* Reporting as the lazy static builds it: nothing collected
NoReporting ==
    [places_found |-> <<>>, devices_found |-> {}, oldest_date |-> {},
     newest_date |-> {}]

\* main has created the sorted and unsorted roots; directories processed
\* before this one may have placed files named like this directory's files,
\* through create_subdir (so their directories are cached) and counted them
InitPipeline ==
    \E use_device \in BOOLEAN,
       source \in { << <<"photos">> >>, <<ROOT, <<"photos">> >> },
       earlier \in SUBSET FileIdx :
        LET dest == DestinationDir(use_device)
            made == IF earlier = {} THEN {} ELSE Prefixes(dest) \ {SortedRoot}
        IN  /\ configuration =
                 [use_device |-> use_device,
                  source_directory |-> source,
                  sorted_images_directory |-> SortedRoot,
                  unsorted_images_directory |-> UnsortedRoot]
            /\ files = [p \in {join(source, <<FileName(i)>>) : i \in FileIdx}
                              \cup {dest \o <<FileName(i)>> : i \in earlier}
                          |-> IF \E i \in FileIdx : p = join(source, <<FileName(i)>>)
                              THEN Content(CHOOSE i \in FileIdx :
                                             p = join(source, <<FileName(i)>>))
                              ELSE "earlier"]
            /\ dirs = Prefixes(source) \cup {SortedRoot, UnsortedRoot} \cup made
            /\ CREATED_DIRS_CACHE = made
            /\ NB = [c \in CounterNames |->
                       IF c \in {"IMAGES", "SORTED_IMAGES"}
                       THEN Cardinality(earlier) ELSE 0]
            /\ start_NB = NB
            /\ REPORTING =
                 IF earlier = {} THEN NoReporting
                 ELSE [places_found |-> (Place :> Cardinality(earlier)),
                       devices_found |-> {Device},
                       oldest_date |-> {YearMonthChars},
                       newest_date |-> {YearMonthChars}]
            /\ errors_details = <<>>
            /\ task = [f \in FileIdx |-> NoTask]
            /\ batch = "running"
            /\ credit = [f \in FileIdx |-> [c \in CounterNames |-> 0]]

DupIdle ==
    /\ d_pc = "off"
    /\ d_file = <<>>
    /\ d_attempt = 0
    /\ d_result = [kind |-> "", path |-> <<>>, msg |-> ""]
    /\ d_calls = 0
    /\ d_log = <<>>
    /\ d_scenario = TRUE

\* the geocoding cache as the lazy static starts, no file analysed
GeoIdle ==
    /\ GEOCODING_CACHE = <<>>
    /\ g_task = [f \in FileIdx |-> [pc |-> "off"]]
    /\ g_log = <<>>
    /\ g_prefill = 0

ParseIdle ==
    /\ p_pc = 0
    /\ p_input = <<>>
    /\ p_output = <<>>

\* no date has been passed to update_date_range outside the pipeline
DateIdle == r_dates = <<>>

\* main's directory loop is not stepped through
MainIdle ==
    /\ m_pc = "off"
    /\ m_dir = 0
    /\ m_task = <<>>
    /\ m_result = <<>>
    /\ m_setup = ""
    /\ m_summary = <<>>

\* no long list of files is given to the pool
PoolIdle == q_task = <<>>

\* no tree is being listed
TreeIdle ==
    /\ t_tree = <<>>
    /\ t_result = <<>>

\* the acquisitions of the locks are not stepped through
LockIdle ==
    /\ l_stage = <<>>
    /\ l_todo = <<>>
    /\ l_held = <<>>

OthersIdle == PoolIdle /\ TreeIdle /\ LockIdle

Init ==
    /\ InitPipeline /\ DupIdle /\ GeoIdle /\ ParseIdle /\ DateIdle /\ MainIdle
    /\ OthersIdle

(***************************************************************************)
(* Helpers of the actions                                                  *)
(***************************************************************************)
Terminal == {"sorted", "unsorted", "errored", "skipped"}

InProgress == {f \in FileIdx : task[f].pc \notin Terminal \cup {"todo", "panicked"}}

\* one operation of a closure: what ran, its argument or outcome, and the
\* locks the closure held while it ran
Step(op, arg, locks) == [op |-> op, arg |-> arg, locks |-> locks]

\* the closure of f has performed the operations did and goes on at pc
Goto(f, pc, did) ==
    task' = [task EXCEPT ![f].pc = pc, ![f].steps = @ \o did]

\* an increment made of a load and a later store: the store of the closure
\* overwrites what the other closures added since the directory was entered
fetch_add_LoadThenStore(f, c) ==
    /\ NB' = [NB EXCEPT ![c] = start_NB[c] + credit[f][c] + 1]
    /\ credit' = [credit EXCEPT ![f][c] = @ + 1]

\* AtomicU32::fetch_add(1, Ordering::Relaxed) done by the closure of file f
\* (the counters stay far below 2^32 within the bounds: no wrap-around)
fetch_add(f, c) ==
    /\ NB' = [NB EXCEPT ![c] = @ + 1]
    /\ credit' = [credit EXCEPT ![f][c] = @ + 1]

\* the Err(e) arms of the closure: the error is counted, then recorded
Fail(f, why, did) ==
    task' = [task EXCEPT ![f].pc = "error_on_image", ![f].reason = why,
                         ![f].steps = @ \o did]

\* std::fs::copy(from, to): the possible results, as [ok, files]. A copy of a
\* file onto itself opens it for reading, then opens it again truncating it:
\* the file ends empty (or the platform refuses). A copy can always fail.
fs_copy(from, to) ==
    {[ok |-> FALSE, files |-> files]} \cup
    (IF from \notin DOMAIN files \/ to \in dirs \/ parent(to) \notin dirs
     THEN {}
     ELSE IF from = to
     THEN {[ok |-> TRUE, files |-> [files EXCEPT ![from] = ""]]}
     ELSE {[ok |-> TRUE, files |-> (to :> files[from]) @@ files]})


(***************************************************************************)
(* sort_images_in_dir: the closure run for each file by the pool           *)
(***************************************************************************)
\* what exif::get_exif_data(file) can end with: Ok(exif_data), the four
\* ExifError variants, or a panic of analyze_exif_data (lat_ref.unwrap() on
\* an image with GPSLatitude and no GPSLatitudeRef, long_ref.unwrap(), or
\* &timestamp_value[0..7] on a date shorter than 7 bytes)
ExifResults == {"Ok", "IO", "NotImageFile", "Decoding", "NoExifData", "panic"}

\* the closure treating NotImageFile as it treats NoExifData: the file is
\* copied to the unsorted directory
GetExifData_NotImageAsNoExif(f) ==
    /\ batch = "running"
    /\ task[f].pc = "todo"
    /\ Cardinality(InProgress) < NumThreads
    /\ \E r \in ExifResults :
         task' = [task EXCEPT ![f] =
            [@ EXCEPT !.result = r,
                      !.steps = Append(@, Step("get_exif_data", r, {})),
                      !.pc = CASE r = "Ok" -> "collect_statistics"
                               [] r = "IO" -> "error_on_image"
                               [] r \in {"NotImageFile", "Decoding", "NoExifData"} ->
                                      "copy_unsorted"
                               [] OTHER -> "panicked",
                      !.reason = IF r = "IO" THEN "IO error" ELSE "",
                      !.level = IF r = "Ok" THEN 1 ELSE 0,
                      !.buf = IF r = "Ok"
                              THEN configuration.sorted_images_directory
                              ELSE <<>>]]
    /\ UNCHANGED <<configuration, files, dirs, CREATED_DIRS_CACHE, NB,
                   errors_details, batch, start_NB, credit, dupVars,
                   geoVars, parseVars, REPORTING,
                   dateVars, mainVars, poolVars, treeVars,
                   lockVars>>

\* a pool thread takes the file and reads its metadata; the match on the
\* result selects the arm
GetExifData(f) ==
    /\ batch = "running"
    /\ task[f].pc = "todo"
    /\ Cardinality(InProgress) < NumThreads
    /\ \E r \in ExifResults :
         task' = [task EXCEPT ![f] =
            [@ EXCEPT !.result = r,
                      !.steps = Append(@, Step("get_exif_data", r, {})),
                      !.pc = CASE r = "Ok" -> "collect_statistics"
                               [] r = "IO" -> "error_on_image"
                               [] r = "NotImageFile" -> "skipped"
                               [] r \in {"Decoding", "NoExifData"} -> "copy_unsorted"
                               [] OTHER -> "panicked",
                      !.reason = IF r = "IO" THEN "IO error" ELSE "",
                      !.level = IF r = "Ok" THEN 1 ELSE 0,
                      !.buf = IF r = "Ok"
                              THEN configuration.sorted_images_directory
                              ELSE <<>>]]
    /\ UNCHANGED <<configuration, files, dirs, CREATED_DIRS_CACHE, NB,
                   errors_details, batch, start_NB, credit, dupVars,
                   geoVars, parseVars, REPORTING,
                   dateVars, mainVars, poolVars, treeVars,
                   lockVars>>

\* add_place entering a place once and never counting it again
add_place_OnlyInsert(r, place) ==
    [r EXCEPT !.places_found =
        IF place \in DOMAIN @ THEN @ ELSE (place :> 1) @@ @]

\* Reporting::add_place(place): the entry of the place, 0 if new, plus one
add_place(r, place) ==
    [r EXCEPT !.places_found =
        IF place \in DOMAIN @ THEN [@ EXCEPT ![place] = @ + 1]
        ELSE (place :> 1) @@ @]

\* Reporting::add_device(device): insert into the set
add_device(r, device) == [r EXCEPT !.devices_found = @ \cup {device}]

\* the code points of the characters the dates are made of, for the order
\* of str: bytewise, a proper prefix before its extensions
CodePoint ==
    [c \in {" ", "0", "1", "2", "8", "9", "D", "U", "a", "e", "k", "n", "o",
            "t", "w"} |->
        CASE c = " " -> 32 [] c = "0" -> 48 [] c = "1" -> 49 [] c = "2" -> 50
          [] c = "8" -> 56 [] c = "9" -> 57 [] c = "D" -> 68 [] c = "U" -> 85
          [] c = "a" -> 97 [] c = "e" -> 101 [] c = "k" -> 107
          [] c = "n" -> 110 [] c = "o" -> 111 [] c = "t" -> 116
          [] OTHER -> 119]

\* a < b for two str
str_lt(a, b) ==
    \E k \in 1..(Len(a) + 1) :
        /\ k <= Len(b)
        /\ \A i \in 1..(k - 1) : a[i] = b[i]
        /\ k = Len(a) + 1 \/ CodePoint[a[k]] < CodePoint[b[k]]

\* update_date_range with the comparison of the newest date turned around
update_date_range_NewestIsOldest(r, date) ==
    LET r1 == IF r.oldest_date = {} \/ \E o \in r.oldest_date : str_lt(date, o)
              THEN [r EXCEPT !.oldest_date = {date}] ELSE r
    IN  IF r1.newest_date = {} \/ \E n \in r1.newest_date : str_lt(date, n)
        THEN [r1 EXCEPT !.newest_date = {date}] ELSE r1

\* Reporting::update_date_range(date), under one write lock. An Option
\* orders None below Some, and the None case is tested first.
update_date_range(r, date) ==
    LET r1 == IF r.oldest_date = {} \/ \E o \in r.oldest_date : str_lt(date, o)
              THEN [r EXCEPT !.oldest_date = {date}] ELSE r
    IN  IF r1.newest_date = {} \/ \E n \in r1.newest_date : str_lt(n, date)
        THEN [r1 EXCEPT !.newest_date = {date}] ELSE r1

\* the Ok arm collects the statistics before it sorts the file: add_place,
\* add_device and update_date_range, three critical sections of the write
\* lock of REPORTING_WRAPPER one after the other with nothing in between;
\* then sort_image_from_exif_data is entered
CollectStatistics(f) ==
    /\ task[f].pc = "collect_statistics"
    /\ REPORTING' = update_date_range(
                        add_device(add_place(REPORTING, Place), Device),
                        YearMonthChars)
    /\ Goto(f, "create_subdir",
            <<Step("add_place", Place, {"REPORTING_WRAPPER"}),
              Step("add_device", Device, {"REPORTING_WRAPPER"}),
              Step("update_date_range", YearMonth, {"REPORTING_WRAPPER"})>>)
    /\ UNCHANGED <<configuration, files, dirs, CREATED_DIRS_CACHE, NB,
                   errors_details, batch, start_NB, credit, dupVars,
                   geoVars, parseVars, dateVars, mainVars, poolVars, treeVars,
                   lockVars>>

\* sort_image_from_exif_data asking for the place before the period
SubDir_PlaceFirst(level) ==
    CASE level = 1 -> << <<Place>> >>
      [] level = 2 -> << <<YearMonth>> >>
      [] OTHER -> << <<Device>> >>

\* the sub_dir argument of the level-th create_subdir call of
\* sort_image_from_exif_data
SubDir(level) ==
    CASE level = 1 -> << <<YearMonth>> >>
      [] level = 2 -> << <<Place>> >>
      [] OTHER -> << <<Device>> >>

\* sort_image_from_exif_data making the device level whatever use_device is
AfterSubdir_DeviceAlways(t, new_dir) ==
    IF t.level = 1 \/ t.level = 2
    THEN [t EXCEPT !.pc = "create_subdir", !.level = @ + 1, !.buf = new_dir]
    ELSE [t EXCEPT !.pc = "check_duplicate", !.buf = new_dir]

\* where sort_image_from_exif_data continues after create_subdir returned
\* Ok(new_dir): the next directory level, or the duplicate check
AfterSubdir(t, new_dir) ==
    IF t.level = 1 \/ (t.level = 2 /\ configuration.use_device)
    THEN [t EXCEPT !.pc = "create_subdir", !.level = @ + 1, !.buf = new_dir]
    ELSE [t EXCEPT !.pc = "check_duplicate", !.buf = new_dir]

\* create_subdir looking nothing up: every call goes to DirBuilder
CreateSubdirLookup_NoCache(f) ==
    /\ task[f].pc = "create_subdir"
    /\ LET new_dir == join(task[f].buf, SubDir(task[f].level))
           did == Step("create_subdir", SubDir(task[f].level)[1][1], {})
       IN  task' = [task EXCEPT ![f] =
                [@ EXCEPT !.pc = "dir_builder", !.new_dir = new_dir,
                          !.steps = Append(@, did)]]
    /\ UNCHANGED <<configuration, files, dirs, CREATED_DIRS_CACHE, NB,
                   errors_details, batch, start_NB, credit, dupVars,
                   geoVars, parseVars, REPORTING,
                   dateVars, mainVars, poolVars, treeVars,
                   lockVars>>

\* create_subdir, first critical section: the cache lookup
CreateSubdirLookup(f) ==
    /\ task[f].pc = "create_subdir"
    /\ LET new_dir == join(task[f].buf, SubDir(task[f].level))
           did == Step("create_subdir", SubDir(task[f].level)[1][1],
                       {"CREATED_DIRS_CACHE"})
       IN  task' = [task EXCEPT ![f] =
                IF new_dir \in CREATED_DIRS_CACHE
                THEN AfterSubdir([@ EXCEPT !.steps = Append(@, did)], new_dir)
                ELSE [@ EXCEPT !.pc = "dir_builder", !.new_dir = new_dir,
                               !.steps = Append(@, did)]]
    /\ UNCHANGED <<configuration, files, dirs, CREATED_DIRS_CACHE, NB,
                   errors_details, batch, start_NB, credit, dupVars,
                   geoVars, parseVars, REPORTING,
                   dateVars, mainVars, poolVars, treeVars,
                   lockVars>>

\* DirBuilder::new().recursive(false).create(path): an existing path and a
\* missing parent are errors
DirBuilder_create_NotRecursive(path) ==
    {[ok |-> FALSE, err |-> "io", dirs |-> dirs]} \cup
    (IF Exists(path)
     THEN {[ok |-> FALSE, err |-> "AlreadyExists", dirs |-> dirs]}
     ELSE IF parent(path) \notin dirs
     THEN {[ok |-> FALSE, err |-> "NotFound", dirs |-> dirs]}
     ELSE {[ok |-> TRUE, err |-> "", dirs |-> dirs \cup {path}]})

\* DirBuilder::new().recursive(true).create(path): the possible results, as
\* [ok, err, dirs]. The path and its missing ancestors are created; a
\* directory that is already there, made before or by another thread in the
\* meantime, is a success; an ancestor that is a regular file is an error;
\* and the system can always refuse (permissions, full disk).
DirBuilder_create(path) ==
    {[ok |-> FALSE, err |-> "io", dirs |-> dirs]} \cup
    (IF Prefixes(path) \cap DOMAIN files # {}
     THEN {[ok |-> FALSE, err |-> "NotADirectory", dirs |-> dirs]}
     ELSE {[ok |-> TRUE, err |-> "", dirs |-> dirs \cup Prefixes(path)]})

\* create_subdir going on to the cache insert whatever create returned
CreateSubdirDirBuilder_IgnoreError(f) ==
    /\ task[f].pc = "dir_builder"
    /\ \E r \in DirBuilder_create(task[f].new_dir) :
         /\ dirs' = r.dirs
         /\ Goto(f, "cache_insert", <<Step("DirBuilder::create", "Ok", {})>>)
    /\ UNCHANGED <<configuration, files, CREATED_DIRS_CACHE, NB,
                   errors_details, batch, start_NB, credit, dupVars,
                   geoVars, parseVars, REPORTING,
                   dateVars, mainVars, poolVars, treeVars,
                   lockVars>>

\* create_subdir keeping the lock of the cache from the lookup to the
\* insert: the directory is made and recorded inside the critical section
CreateSubdirDirBuilder_UnderLock(f) ==
    /\ task[f].pc = "dir_builder"
    /\ \E r \in DirBuilder_create(task[f].new_dir) :
         /\ dirs' = r.dirs
         /\ IF r.ok
            THEN /\ CREATED_DIRS_CACHE' = CREATED_DIRS_CACHE \cup {task[f].new_dir}
                 /\ task' = [task EXCEPT ![f] =
                        AfterSubdir([@ EXCEPT !.steps = @ \o
                            <<Step("DirBuilder::create", "Ok", {"CREATED_DIRS_CACHE"}),
                              Step("insert", "", {"CREATED_DIRS_CACHE"})>>],
                            task[f].new_dir)]
            ELSE /\ UNCHANGED CREATED_DIRS_CACHE
                 /\ Fail(f, r.err,
                         <<Step("DirBuilder::create", "Err", {"CREATED_DIRS_CACHE"})>>)
    /\ UNCHANGED <<configuration, files, NB, errors_details, batch, start_NB,
                   credit, dupVars, geoVars, parseVars, REPORTING, dateVars,
                   mainVars, poolVars, treeVars,
                   lockVars>>

\* create_subdir, outside any lock: DirBuilder's create, whose error the ?
\* returns to sort_image_from_exif_data and on to the closure's Err arm
CreateSubdirDirBuilder(f) ==
    /\ task[f].pc = "dir_builder"
    /\ \E r \in DirBuilder_create(task[f].new_dir) :
         /\ dirs' = r.dirs
         /\ IF r.ok
            THEN Goto(f, "cache_insert", <<Step("DirBuilder::create", "Ok", {})>>)
            ELSE Fail(f, r.err, <<Step("DirBuilder::create", "Err", {})>>)
    /\ UNCHANGED <<configuration, files, CREATED_DIRS_CACHE, NB,
                   errors_details, batch, start_NB, credit, dupVars,
                   geoVars, parseVars, REPORTING,
                   dateVars, mainVars, poolVars, treeVars,
                   lockVars>>

\* create_subdir, second critical section: the cache insert, then Ok(new_dir)
CreateSubdirInsert(f) ==
    /\ task[f].pc = "cache_insert"
    /\ CREATED_DIRS_CACHE' = CREATED_DIRS_CACHE \cup {task[f].new_dir}
    /\ task' = [task EXCEPT ![f] =
                AfterSubdir([@ EXCEPT !.steps = Append(@,
                                 Step("insert", "", {"CREATED_DIRS_CACHE"}))],
                            task[f].new_dir)]
    /\ UNCHANGED <<configuration, files, dirs, NB, errors_details, batch,
                   start_NB, credit, dupVars,
                   geoVars, parseVars, REPORTING,
                   dateVars, mainVars, poolVars, treeVars,
                   lockVars>>


\* check_for_duplicate_and_rename(file), a whole call against the disk as it
\* is: the set of results it can return. Files are never removed during a
\* run, so the names the loop found taken are still taken at its last check,
\* where the call is placed; the resolver spec below steps through the loop.
DuplicateResults(file) ==
    IF file \in dirs
    THEN {[kind |-> "Err", path |-> <<>>, msg |-> ErrIsDirMsg]}
    ELSE IF ~Exists(file)
    THEN {[kind |-> "None", path |-> <<>>, msg |-> ""]}
    ELSE {[kind |-> "Some", path |-> NewPath(file, n), msg |-> ""] :
             n \in {m \in RandomRange : ~Exists(NewPath(file, m))}}
         \cup {[kind |-> "Err", path |-> <<>>, msg |-> ErrExhaustedMsg] :
                 n \in {m \in RandomRange : Exists(NewPath(file, m))}}

\* sort_image_from_exif_data: pb = p.join(file_name), then the duplicate check
CheckForDuplicate(f) ==
    /\ task[f].pc = "check_duplicate"
    /\ LET pb == join(task[f].buf, <<file_name(SourceFile(f))>>)
       IN  \E checked \in DuplicateResults(pb) :
             LET did == Step("check_for_duplicate_and_rename", checked.kind, {})
             IN
             \/ /\ checked.kind = "Err"
                /\ Fail(f, checked.msg, <<did>>)
                /\ UNCHANGED <<NB, credit>>
             \/ /\ checked.kind = "None"
                /\ task' = [task EXCEPT ![f].pc = "copy", ![f].to = pb,
                                        ![f].steps = Append(@, did)]
                /\ UNCHANGED <<NB, credit>>
             \/ /\ checked.kind = "Some"
                /\ fetch_add(f, "DUPLICATES_RENAMED")
                /\ task' = [task EXCEPT ![f].pc = "copy", ![f].to = checked.path,
                                        ![f].steps = @ \o <<did,
                                            Step("fetch_add", "DUPLICATES_RENAMED", {})>>]
    /\ UNCHANGED <<configuration, files, dirs, CREATED_DIRS_CACHE,
                   errors_details, batch, start_NB, dupVars,
                   geoVars, parseVars, REPORTING,
                   dateVars, mainVars, poolVars, treeVars,
                   lockVars>>

\* sort_image_from_exif_data: copy_file_with_metrics(file, to)?
CopySorted(f) ==
    /\ task[f].pc = "copy"
    /\ \E r \in fs_copy(SourceFile(f), task[f].to) :
         /\ files' = r.files
         /\ IF r.ok
            THEN Goto(f, "image_processed_sorted", <<Step("fs::copy", "Ok", {})>>)
            ELSE Fail(f, "copy", <<Step("fs::copy", "Err", {})>>)
    /\ UNCHANGED <<configuration, dirs, CREATED_DIRS_CACHE, NB, errors_details,
                   batch, start_NB, credit, dupVars,
                   geoVars, parseVars, REPORTING,
                   dateVars, mainVars, poolVars, treeVars,
                   lockVars>>

\* image_processed_sorted adding to the sorted images before the images
ImageProcessedSorted_SortedFirst(f) ==
    \/ /\ task[f].pc = "image_processed_sorted"
       /\ fetch_add(f, "SORTED_IMAGES")
       /\ Goto(f, "image_processed_sorted_2",
               <<Step("fetch_add", "SORTED_IMAGES", {})>>)
       /\ UNCHANGED <<configuration, files, dirs, CREATED_DIRS_CACHE,
                      errors_details, batch, start_NB, dupVars,
                      geoVars, parseVars, REPORTING,
                      dateVars, mainVars, poolVars, treeVars,
                      lockVars>>
    \/ /\ task[f].pc = "image_processed_sorted_2"
       /\ fetch_add(f, "IMAGES")
       /\ Goto(f, "sorted", <<Step("fetch_add", "IMAGES", {})>>)
       /\ UNCHANGED <<configuration, files, dirs, CREATED_DIRS_CACHE,
                      errors_details, batch, start_NB, dupVars,
                      geoVars, parseVars, REPORTING,
                      dateVars, mainVars, poolVars, treeVars,
                      lockVars>>

\* Reporting::image_processed_sorted: two independent atomic increments
ImageProcessedSorted(f) ==
    \/ /\ task[f].pc = "image_processed_sorted"
       /\ fetch_add(f, "IMAGES")
       /\ Goto(f, "image_processed_sorted_2", <<Step("fetch_add", "IMAGES", {})>>)
       /\ UNCHANGED <<configuration, files, dirs, CREATED_DIRS_CACHE,
                      errors_details, batch, start_NB, dupVars,
                   geoVars, parseVars, REPORTING,
                   dateVars, mainVars, poolVars, treeVars,
                   lockVars>>
    \/ /\ task[f].pc = "image_processed_sorted_2"
       /\ fetch_add(f, "SORTED_IMAGES")
       /\ Goto(f, "sorted", <<Step("fetch_add", "SORTED_IMAGES", {})>>)
       /\ UNCHANGED <<configuration, files, dirs, CREATED_DIRS_CACHE,
                      errors_details, batch, start_NB, dupVars,
                   geoVars, parseVars, REPORTING,
                   dateVars, mainVars, poolVars, treeVars,
                   lockVars>>

\* copy_unsorted_image_in_specific_dir(file, unsorted_dir): p is
\* unsorted_dir.join(file); its parent is created recursively, then the copy
CopyUnsorted(f) ==
    /\ task[f].pc = "copy_unsorted"
    /\ LET p == join(configuration.unsorted_images_directory, SourceFile(f))
       IN  \/ /\ Fail(f, "create unsorted parent",
                      <<Step("DirBuilder::create", "Err", {})>>)
              /\ UNCHANGED <<files, dirs>>
           \/ /\ Prefixes(parent(p)) \cap DOMAIN files = {}
              /\ \E r \in fs_copy(SourceFile(f), p) :
                   /\ dirs' = dirs \cup Prefixes(parent(p))
                   /\ files' = r.files
                   /\ IF r.ok
                      THEN task' = [task EXCEPT ![f].pc = "image_processed_unsorted",
                                                ![f].to = p,
                                                ![f].steps = @ \o
                                                    <<Step("DirBuilder::create", "Ok", {}),
                                                      Step("fs::copy", "Ok", {})>>]
                      ELSE task' = [task EXCEPT ![f].pc = "error_on_image",
                                                ![f].to = p,
                                                ![f].reason = "copy",
                                                ![f].steps = @ \o
                                                    <<Step("DirBuilder::create", "Ok", {}),
                                                      Step("fs::copy", "Err", {})>>]
    /\ UNCHANGED <<configuration, CREATED_DIRS_CACHE, NB, errors_details, batch,
                   start_NB, credit, dupVars,
                   geoVars, parseVars, REPORTING,
                   dateVars, mainVars, poolVars, treeVars,
                   lockVars>>

\* image_processed_unsorted counting the image as sorted
ImageProcessedUnsorted_AsSorted(f) ==
    \/ /\ task[f].pc = "image_processed_unsorted"
       /\ fetch_add(f, "IMAGES")
       /\ Goto(f, "image_processed_unsorted_2", <<Step("fetch_add", "IMAGES", {})>>)
       /\ UNCHANGED <<configuration, files, dirs, CREATED_DIRS_CACHE,
                      errors_details, batch, start_NB, dupVars,
                   geoVars, parseVars, REPORTING,
                   dateVars, mainVars, poolVars, treeVars,
                   lockVars>>
    \/ /\ task[f].pc = "image_processed_unsorted_2"
       /\ fetch_add(f, "SORTED_IMAGES")
       /\ Goto(f, "unsorted", <<Step("fetch_add", "SORTED_IMAGES", {})>>)
       /\ UNCHANGED <<configuration, files, dirs, CREATED_DIRS_CACHE,
                      errors_details, batch, start_NB, dupVars,
                   geoVars, parseVars, REPORTING,
                   dateVars, mainVars, poolVars, treeVars,
                   lockVars>>

\* Reporting::image_processed_unsorted: two independent atomic increments
ImageProcessedUnsorted(f) ==
    \/ /\ task[f].pc = "image_processed_unsorted"
       /\ fetch_add(f, "IMAGES")
       /\ Goto(f, "image_processed_unsorted_2", <<Step("fetch_add", "IMAGES", {})>>)
       /\ UNCHANGED <<configuration, files, dirs, CREATED_DIRS_CACHE,
                      errors_details, batch, start_NB, dupVars,
                   geoVars, parseVars, REPORTING,
                   dateVars, mainVars, poolVars, treeVars,
                   lockVars>>
    \/ /\ task[f].pc = "image_processed_unsorted_2"
       /\ fetch_add(f, "UNSORTED_IMAGES")
       /\ Goto(f, "unsorted", <<Step("fetch_add", "UNSORTED_IMAGES", {})>>)
       /\ UNCHANGED <<configuration, files, dirs, CREATED_DIRS_CACHE,
                      errors_details, batch, start_NB, dupVars,
                   geoVars, parseVars, REPORTING,
                   dateVars, mainVars, poolVars, treeVars,
                   lockVars>>

\* Reporting::error_on_image() of an Err arm
ErrorOnImage(f) ==
    /\ task[f].pc = "error_on_image"
    /\ fetch_add(f, "ERROR_ON_IMAGES")
    /\ Goto(f, "add_error", <<Step("fetch_add", "ERROR_ON_IMAGES", {})>>)
    /\ UNCHANGED <<configuration, files, dirs, CREATED_DIRS_CACHE,
                   errors_details, batch, start_NB, dupVars,
                   geoVars, parseVars, REPORTING,
                   dateVars, mainVars, poolVars, treeVars,
                   lockVars>>

\* an Err arm that records the detail of the error twice
AddError_Twice(f) ==
    /\ task[f].pc = "add_error"
    /\ errors_details' = errors_details \o << <<f, task[f].reason>>,
                                               <<f, task[f].reason>> >>
    /\ Goto(f, "errored",
            <<Step("add_error", task[f].reason, {"REPORTING_WRAPPER"})>>)
    /\ UNCHANGED <<configuration, files, dirs, CREATED_DIRS_CACHE, NB, batch,
                   start_NB, credit, dupVars, geoVars, parseVars, REPORTING,
                   dateVars, mainVars, poolVars, treeVars, lockVars>>

\* an Err arm that counts the error and records no detail
AddError_NoDetail(f) ==
    /\ task[f].pc = "add_error"
    /\ Goto(f, "errored", <<>>)
    /\ UNCHANGED <<configuration, files, dirs, CREATED_DIRS_CACHE, NB, batch,
                   errors_details, start_NB, credit, dupVars, geoVars,
                   parseVars, REPORTING, dateVars, mainVars, poolVars, treeVars,
                   lockVars>>

\* Reporting::add_error(file.clone(), reason) of an Err arm
AddError(f) ==
    /\ task[f].pc = "add_error"
    /\ errors_details' = Append(errors_details, <<f, task[f].reason>>)
    /\ Goto(f, "errored",
            <<Step("add_error", task[f].reason, {"REPORTING_WRAPPER"})>>)
    /\ UNCHANGED <<configuration, files, dirs, CREATED_DIRS_CACHE, NB, batch,
                   start_NB, credit, dupVars,
                   geoVars, parseVars, REPORTING,
                   dateVars, mainVars, poolVars, treeVars,
                   lockVars>>

\* for_each ends when no closure is left to run: it returns, or resumes the
\* panic of a closure in its caller once the other closures are over
ForEachEnds ==
    /\ batch = "running"
    /\ \A f \in FileIdx : task[f].pc \in Terminal \cup {"panicked"}
    /\ batch' = IF \E f \in FileIdx : task[f].pc = "panicked"
                THEN "panicked" ELSE "returned"
    /\ UNCHANGED <<configuration, files, dirs, CREATED_DIRS_CACHE, NB,
                   errors_details, task, start_NB, credit, dupVars,
                   geoVars, parseVars, REPORTING,
                   dateVars, mainVars, poolVars, treeVars,
                   lockVars>>

Next ==
    \/ \E f \in FileIdx :
         \/ GetExifData(f)
         \/ CollectStatistics(f)
         \/ CreateSubdirLookup(f)
         \/ CreateSubdirDirBuilder(f)
         \/ CreateSubdirInsert(f)
         \/ CheckForDuplicate(f)
         \/ CopySorted(f)
         \/ ImageProcessedSorted(f)
         \/ CopyUnsorted(f)
         \/ ImageProcessedUnsorted(f)
         \/ ErrorOnImage(f)
         \/ AddError(f)
    \/ ForEachEnds

Spec == Init /\ [][Next]_vars


(***************************************************************************)
(* check_for_duplicate_and_rename, stepped through its loop: sequential    *)
(* calls for one path, as test_check_for_duplicate_and_rename makes them   *)
(***************************************************************************)
TestDir == << <<"test_check_dir">> >>

\* names with an extension, without one, and with a dot inside the stem
TestNames == { <<"foo", ".", "txt">>, <<"foo">>, <<"foo", ".", "bar", ".", "txt">> }

NoResult == [kind |-> "", path |-> <<>>, msg |-> ""]

\* the path is absent, a file or a directory when the first call is made
InitDup ==
    /\ \E name \in TestNames, what \in {"absent", "file", "dir"} :
         /\ d_file = TestDir \o <<name>>
         /\ files = IF what = "file" THEN (d_file :> "Lorem ipsum") ELSE <<>>
         /\ dirs = {TestDir} \cup (IF what = "dir" THEN {d_file} ELSE {})
    /\ d_pc = "idle"
    /\ d_attempt = 0
    /\ d_result = NoResult
    /\ d_calls = 0
    /\ d_log = <<>>
    /\ d_scenario = TRUE
    /\ NB = [c \in CounterNames |-> 0]
    /\ start_NB = NB
    /\ configuration = [use_device |-> FALSE, source_directory |-> <<>>,
                        sorted_images_directory |-> SortedRoot,
                        unsorted_images_directory |-> UnsortedRoot]
    /\ CREATED_DIRS_CACHE = {}
    /\ errors_details = <<>>
    /\ task = [f \in FileIdx |-> NoTask]
    /\ batch = "off"
    /\ credit = [f \in FileIdx |-> [c \in CounterNames |-> 0]]
    /\ GeoIdle
    /\ ParseIdle
    /\ REPORTING = NoReporting
    /\ DateIdle
    /\ MainIdle
    /\ OthersIdle

dupFrame == <<configuration, CREATED_DIRS_CACHE, errors_details, task, batch,
              credit, geoVars, parseVars, REPORTING, dateVars, mainVars, poolVars, treeVars,
                   lockVars>>

\* duplicate_renamed adding to the counter of the images
duplicate_renamed_Images == NB' = [NB EXCEPT !["IMAGES"] = @ + 1]

\* Reporting::duplicate_renamed()
duplicate_renamed == NB' = [NB EXCEPT !["DUPLICATES_RENAMED"] = @ + 1]

Return(r) ==
    /\ d_result' = r
    /\ d_pc' = "returned"
    /\ d_calls' = d_calls + 1

\* the function without its is_dir() test
DupEnter_NoDirCheck ==
    /\ d_pc = "idle"
    /\ d_calls < MaxCalls
    /\ start_NB' = NB
    /\ d_attempt' = 0
    /\ IF ~Exists(d_file)
       THEN Return([kind |-> "None", path |-> <<>>, msg |-> ""])
       ELSE /\ d_pc' = "loop"
            /\ d_result' = NoResult
            /\ UNCHANGED d_calls
    /\ d_scenario' = (d_scenario /\ d_file \in DOMAIN files)
    /\ UNCHANGED <<files, dirs, NB, d_file, d_log, dupFrame>>

\* entry of the function: is_dir() rejects, a path that does not exist is
\* returned as None, otherwise the loop is entered
DupEnter ==
    /\ d_pc = "idle"
    /\ d_calls < MaxCalls
    /\ start_NB' = NB
    /\ d_attempt' = 0
    /\ IF d_file \in dirs
       THEN Return([kind |-> "Err", path |-> <<>>, msg |-> ErrIsDirMsg])
       ELSE IF ~Exists(d_file)
       THEN Return([kind |-> "None", path |-> <<>>, msg |-> ""])
       ELSE /\ d_pc' = "loop"
            /\ d_result' = NoResult
            /\ UNCHANGED d_calls
    /\ d_scenario' = (d_scenario /\ d_file \in DOMAIN files)
    /\ UNCHANGED <<files, dirs, NB, d_file, d_log, dupFrame>>

\* the range taken inclusive, 0..=1000
RangeYields_Inclusive(done) == done <= MaxAttempts

\* for attempt in 0..1000: whether the range yields another attempt after
\* `done` iterations
RangeYields(done) == done < MaxAttempts

\* one iteration: draw, build the candidate, check it; past the last
\* iteration the function returns the exhaustion error
DupAttempt ==
    /\ d_pc = "loop"
    /\ \E random_num \in RandomRange :
         LET new_path == NewPath(d_file, random_num)
         IN  IF ~Exists(new_path)
             THEN /\ duplicate_renamed
                  /\ Return([kind |-> "Some", path |-> new_path, msg |-> ""])
                  /\ d_log' = Append(d_log, new_path)
             ELSE /\ IF RangeYields(d_attempt + 1)
                     THEN UNCHANGED <<d_pc, d_result, d_calls>>
                     ELSE Return([kind |-> "Err", path |-> <<>>,
                                  msg |-> ErrExhaustedMsg])
                  /\ UNCHANGED <<NB, d_log>>
    /\ d_attempt' = d_attempt + 1
    /\ UNCHANGED <<files, dirs, start_NB, d_file, d_scenario, dupFrame>>

\* the caller creates a file at the returned path before the next call
\* (fs::write(&new_path, ...) of the test), or at the path itself
DupWrite ==
    /\ d_pc = "returned"
    /\ d_result.kind \in {"Some", "None"}
    /\ LET at == IF d_result.kind = "Some" THEN d_result.path ELSE d_file
       IN  files' = (at :> "Duplicate") @@ files
    /\ d_pc' = "idle"
    /\ UNCHANGED <<dirs, NB, start_NB, d_file, d_attempt, d_result, d_calls,
                   d_log, d_scenario, dupFrame>>

\* the caller makes the next call without creating anything
DupSkip ==
    /\ d_pc = "returned"
    /\ d_pc' = "idle"
    /\ d_scenario' = (d_scenario /\ d_result.kind # "Some")
    /\ UNCHANGED <<files, dirs, NB, start_NB, d_file, d_attempt, d_result,
                   d_calls, d_log, dupFrame>>

NextDup == DupEnter \/ DupAttempt \/ DupWrite \/ DupSkip

SpecDup == InitDup /\ [][NextDup]_vars

\* the stepped call returns what the whole-call summary allows
StepsAgreeWithSummary ==
    d_pc = "returned" => d_result \in DuplicateResults(d_file)


\* no directory is being sorted and the disk plays no part
PipelineOff ==
    /\ configuration = [use_device |-> FALSE, source_directory |-> <<>>,
                        sorted_images_directory |-> SortedRoot,
                        unsorted_images_directory |-> UnsortedRoot]
    /\ files = <<>>
    /\ dirs = {}
    /\ CREATED_DIRS_CACHE = {}
    /\ NB = [c \in CounterNames |-> 0]
    /\ start_NB = NB
    /\ errors_details = <<>>
    /\ task = [f \in FileIdx |-> NoTask]
    /\ batch = "off"
    /\ credit = [f \in FileIdx |-> [c \in CounterNames |-> 0]]
    /\ REPORTING = NoReporting


(***************************************************************************)
(* exif.rs, Directory::parse: a string is a sequence of characters         *)
(***************************************************************************)
\* the characters the strings are made of, by Unicode class: letters
\* (Alphabetic), digits (Nd), the underscore (Pc), and characters that are
\* in none of the classes of \w
Alphabetic == {"a", "Z", "é", "U", "n", "k", "o", "w", "P", "l", "c", "e",
               "S", "t", "L", "ô", "u"}
Decimal_Number == {"7"}
Connector_Punctuation == {"_"}
NotWord == {" ", "-", "/"}
\* the characters the sanitizer spec makes its input strings of
Chars == {"a", "Z", "é", "7", "_", " ", "-", "/"}

\* the class with the hyphen let through, [^\w-]
is_word_character_WithHyphen(c) ==
    c \in Alphabetic \cup Decimal_Number \cup Connector_Punctuation \cup {"-"}

\* \w of Regex::new(r"[^\w]"): the regex crate matches Unicode by default,
\* \w is any letter, mark, decimal digit or connector punctuation
is_word_character(c) ==
    c \in Alphabetic \cup Decimal_Number \cup Connector_Punctuation

RECURSIVE parse_Collapsing(_)
\* parse with the class repeated, [^\w]+: a run of replaced characters
\* becomes one space
parse_Collapsing(s) ==
    IF s = <<>> THEN <<>>
    ELSE IF is_word_character(Head(s)) THEN <<Head(s)>> \o parse_Collapsing(Tail(s))
    ELSE IF Tail(s) # <<>> /\ ~is_word_character(Head(Tail(s)))
    THEN parse_Collapsing(Tail(s))
    ELSE <<" ">> \o parse_Collapsing(Tail(s))

\* parse turning the spaces into underscores before it replaces the rest
parse_SpacesToUnderscore(s) ==
    [i \in 1..Len(s) |-> IF s[i] = " " THEN "_"
                         ELSE IF is_word_character(s[i]) THEN s[i] ELSE " "]

\* Directory::parse: re.replace_all(&s, " "), every character that is not
\* of \w becomes one space
parse(s) ==
    [i \in 1..Len(s) |-> IF is_word_character(s[i]) THEN s[i] ELSE " "]

RECURSIVE Strings(_)
\* the strings of at most n characters
Strings(n) ==
    IF n = 0 THEN {<<>>}
    ELSE Strings(n - 1) \cup
         {Append(x, c) : x \in {y \in Strings(n - 1) : Len(y) = n - 1}, c \in Chars}

\* any string of at most MaxStrLen characters is about to be parsed
InitParse ==
    /\ p_input \in Strings(MaxStrLen)
    /\ p_pc = 0
    /\ p_output = <<>>
    /\ PipelineOff
    /\ DupIdle
    /\ GeoIdle
    /\ DateIdle
    /\ MainIdle
    /\ OthersIdle

\* Directory::parse(s), applied to the input and then to its own result
Parse ==
    /\ p_pc < MaxParses
    /\ p_output' = Append(p_output,
                          parse(IF p_pc = 0 THEN p_input ELSE p_output[p_pc]))
    /\ p_pc' = p_pc + 1
    /\ UNCHANGED <<p_input, configuration, files, dirs, CREATED_DIRS_CACHE, NB,
                   errors_details, task, batch, start_NB, credit, dupVars,
                   geoVars, REPORTING, dateVars, mainVars, poolVars, treeVars,
                   lockVars>>

NextParse == Parse

SpecParse == InitParse /\ [][NextParse]_vars


(***************************************************************************)
(* place_finder.rs, find_place and its LRU cache, called by                *)
(* analyze_exif_data for each file of the pool. A coordinate is an integer *)
(* number of 1/100000 degree, so that lat * 10000.0 is lat / 10.           *)
(***************************************************************************)
\* `x as i32` of the float n/d: the fraction is dropped, toward zero
as_i32(n, d) == IF n >= 0 THEN n \div d ELSE -((-n) \div d)

\* cache_key of find_place: ((lat * 10000.0) as i32, (long * 10000.0) as i32)
cache_key(lat, long) == <<as_i32(lat, 10), as_i32(long, 10)>>

\* the default of exif_data.place
UnknownPlace == <<"U", "n", "k", "n", "o", "w", "n", " ", "P", "l", "a", "c", "e">>

\* search_result.record.name of the reverse geocoder, the nearest place
Nearest(lat, long) ==
    IF lat < 0 THEN <<"S", "t", "-", "L", "ô">> ELSE <<"P", "a", "u">>

\* the keys the cache holds when files sorted earlier in the run were
\* geocoded at distinct places: the i-th of them was inserted i-th
PrefillKey(i) == <<100 + i, 0>>

\* a coordinate of the cell of the i-th such key
PrefillCoord(i) == <<(100 + i) * 10 + 3, 0>>

\* the coordinates the files of the directory carry: none or (0,0), two
\* nearby points on both sides of the equator, another cell, and the place
\* that was geocoded first earlier in the run
GeoCoords == {<<0, 0>>, <<7, 0>>, <<-7, 0>>, <<13, 0>>, PrefillCoord(1)}

\* LruCache, most recently used first, as a sequence of <<key, value>>
Position(cache, key) ==
    LET at == {i \in 1..Len(cache) : cache[i][1] = key}
    IN  IF at = {} THEN 0 ELSE CHOOSE i \in at : TRUE

Without(cache, i) == SubSeq(cache, 1, i - 1) \o SubSeq(cache, i + 1, Len(cache))

\* a get that leaves the entry where it is
lru_get_NoPromote(cache, key) == cache

\* LruCache::get on a present key: the entry moves to the front
lru_get(cache, key) ==
    LET i == Position(cache, key)
    IN  <<cache[i]>> \o Without(cache, i)

\* LruCache::put: a present key is updated and moved to the front; a new
\* key is put at the front, the last entry leaving a full cache
lru_put(cache, key, value) ==
    LET i == Position(cache, key)
    IN  IF i # 0 THEN << <<key, value>> >> \o Without(cache, i)
        ELSE IF Len(cache) = GeoCapacity
        THEN << <<key, value>> >> \o SubSeq(cache, 1, Len(cache) - 1)
        ELSE << <<key, value>> >> \o cache

CacheKeys == {GEOCODING_CACHE[i][1] : i \in 1..Len(GEOCODING_CACHE)}

NoGeoTask ==
    [pc |-> "todo", lat |-> 0, long |-> 0, cache_key |-> <<0, 0>>,
     place_name |-> <<>>, place |-> <<>>]

\* the cache is empty, or full of the places of files sorted earlier
InitGeo ==
    /\ g_prefill \in {0, GeoCapacity}
    /\ GEOCODING_CACHE =
         [i \in 1..g_prefill |->
            LET k == g_prefill + 1 - i
            IN  <<PrefillKey(k), Nearest(PrefillCoord(k)[1], PrefillCoord(k)[2])>>]
    /\ g_task = [f \in FileIdx |-> NoGeoTask]
    /\ g_log = <<>>
    /\ PipelineOff
    /\ DupIdle
    /\ ParseIdle
    /\ DateIdle
    /\ MainIdle
    /\ OthersIdle

geoFrame == <<configuration, files, dirs, CREATED_DIRS_CACHE, NB,
              errors_details, task, batch, start_NB, credit, dupVars,
              parseVars, g_prefill, REPORTING, dateVars, mainVars, poolVars, treeVars,
                   lockVars>>

Event(kind, f, key, evicted) ==
    [kind |-> kind, f |-> f, key |-> key, evicted |-> evicted]

\* find_place going to the search without looking the key up
FindPlaceGet_NoLookup(f, lat, long) ==
    LET key == cache_key(lat, long)
    IN  /\ g_task' = [g_task EXCEPT ![f] =
              [@ EXCEPT !.lat = lat, !.long = long, !.cache_key = key,
                        !.place_name = Nearest(lat, long),
                        !.place = parse(UnknownPlace),
                        !.pc = "put"]]
        /\ g_log' = g_log \o <<Event("miss", f, key, {}),
                               Event("search", f, key, {})>>
        /\ UNCHANGED GEOCODING_CACHE

\* find_place(lat, long) up to its second critical section. The key is
\* computed, then under the lock cache.get(&cache_key): a hit moves the
\* entry to the front and returns Some(place.clone()), which
\* analyze_exif_data parses into exif_data.place. On a miss the lock is
\* released and reverse_geocoder.search(coords) is called, a step that
\* touches nothing shared.
FindPlaceGet(f, lat, long) ==
    LET key == cache_key(lat, long)
        i == Position(GEOCODING_CACHE, key)
    IN  IF i # 0
        THEN /\ GEOCODING_CACHE' = lru_get(GEOCODING_CACHE, key)
             /\ g_task' = [g_task EXCEPT ![f] =
                   [@ EXCEPT !.lat = lat, !.long = long, !.cache_key = key,
                             !.place = parse(GEOCODING_CACHE[i][2]),
                             !.pc = "done"]]
             /\ g_log' = Append(g_log, Event("hit", f, key, {}))
        ELSE /\ g_task' = [g_task EXCEPT ![f] =
                   [@ EXCEPT !.lat = lat, !.long = long, !.cache_key = key,
                             !.place_name = Nearest(lat, long),
                             !.place = parse(UnknownPlace),
                             !.pc = "put"]]
             /\ g_log' = g_log \o <<Event("miss", f, key, {}),
                                    Event("search", f, key, {})>>
             /\ UNCHANGED GEOCODING_CACHE

\* analyze_exif_data calling find_place whatever the coordinates are
AnalyzeExifData_NoZeroCheck(f) ==
    /\ g_task[f].pc = "todo"
    /\ \E c \in GeoCoords : FindPlaceGet(f, c[1], c[2])
    /\ UNCHANGED geoFrame

\* analyze_exif_data: place starts as "Unknown Place", gps_lat and gps_long
\* as 0.0 or what the file's GPS tags give; find_place is called unless
\* both are 0.0
AnalyzeExifData(f) ==
    /\ g_task[f].pc = "todo"
    /\ \E c \in GeoCoords :
         IF c[1] # 0 \/ c[2] # 0
         THEN FindPlaceGet(f, c[1], c[2])
         ELSE /\ g_task' = [g_task EXCEPT ![f] =
                    [@ EXCEPT !.lat = c[1], !.long = c[2],
                              !.place = parse(UnknownPlace),
                              !.pc = "done"]]
              /\ UNCHANGED <<GEOCODING_CACHE, g_log>>
    /\ UNCHANGED geoFrame

\* find_place, second critical section: cache.put(cache_key, place_name),
\* then Some(place_name), which analyze_exif_data parses
FindPlacePut(f) ==
    /\ g_task[f].pc = "put"
    /\ GEOCODING_CACHE' =
         lru_put(GEOCODING_CACHE, g_task[f].cache_key, g_task[f].place_name)
    /\ g_task' = [g_task EXCEPT ![f].place = parse(g_task[f].place_name),
                                ![f].pc = "done"]
    /\ g_log' = Append(g_log,
         Event("put", f, g_task[f].cache_key,
               CacheKeys \ {GEOCODING_CACHE'[i][1] : i \in 1..Len(GEOCODING_CACHE')}))
    /\ UNCHANGED geoFrame

NextGeo ==
    \E f \in FileIdx :
        \/ AnalyzeExifData(f)
        \/ FindPlacePut(f)

SpecGeo == InitGeo /\ [][NextGeo]_vars


(***************************************************************************)
(* Properties                                                              *)
(***************************************************************************)
(* Reporting::update_date_range called with the periods of the images      *)
(***************************************************************************)
\* calls of update_date_range in the date range spec
MaxDates == 3

\* the periods passed: year and month as analyze_exif_data builds them, and
\* the default of an image without a date; listed in the order of str
PeriodsInOrder ==
    << <<"1", "9", "9", "9", " ", "1", "2">>,
       <<"2", "0", "0", "8", " ", "0", "9">>,
       YearMonthChars,
       <<"2", "0", "1", "1", " ", "0", "1">>,
       <<"U", "n", "k", "n", "o", "w", "n", " ", "D", "a", "t", "e">> >>

Periods == {PeriodsInOrder[i] : i \in DOMAIN PeriodsInOrder}

\* Reporting as the lazy static builds it, no call made yet
InitDate ==
    /\ r_dates = <<>>
    /\ PipelineOff
    /\ DupIdle
    /\ GeoIdle
    /\ ParseIdle
    /\ MainIdle
    /\ OthersIdle

\* a worker calls Reporting::update_date_range(date): one critical section
\* of the write lock
UpdateDateRangeCall(date) ==
    /\ Len(r_dates) < MaxDates
    /\ REPORTING' = update_date_range(REPORTING, date)
    /\ r_dates' = Append(r_dates, date)
    /\ UNCHANGED <<configuration, files, dirs, CREATED_DIRS_CACHE, NB,
                   errors_details, task, batch, start_NB, credit, dupVars,
                   geoVars, parseVars, mainVars, poolVars, treeVars,
                   lockVars>>

NextDate == \E date \in Periods : UpdateDateRangeCall(date)

SpecDate == InitDate /\ [][NextDate]_vars


(***************************************************************************)
(* main: the loop over all_directories, one sort_images_in_dir at a time   *)
(***************************************************************************)
\* number of directories in all_directories
NumDirs == 2

DirIdx == 1..NumDirs

\* main has listed all_directories and is about to create the target
\* directory: no closure started, nothing counted
InitMain ==
    /\ m_pc = "create_sorted_images_dir"
    /\ m_dir = 1
    /\ m_task = [d \in DirIdx |-> [f \in FileIdx |-> "todo"]]
    /\ m_result = [d \in DirIdx |-> ""]
    /\ m_setup = ""
    /\ m_summary = <<>>
    /\ OthersIdle
    /\ PipelineOff
    /\ DupIdle
    /\ GeoIdle
    /\ ParseIdle
    /\ DateIdle

mainFrame == <<configuration, files, dirs, CREATED_DIRS_CACHE, task, batch,
               start_NB, credit, dupVars, geoVars, parseVars, REPORTING,
               dateVars, poolVars, treeVars, lockVars>>

\* the closures of the pool that have started and not ended
Running == {f \in FileIdx : \E d \in DirIdx : m_task[d][f] = "running"}

\* Reporting::directory_processed(): one atomic increment
directory_processed == NB' = [NB EXCEPT !["DIRECTORIES"] = @ + 1]

\* main going on when create_sorted_images_dir returned an error
CreateSortedImagesDir_Unchecked ==
    /\ m_pc = "create_sorted_images_dir"
    /\ \E r \in {"Ok", "Err"} :
         /\ m_setup' = r
         /\ m_pc' = "create_unsorted_images_dir"
    /\ UNCHANGED <<NB, errors_details, m_dir, m_task, m_result, m_summary,
                   mainFrame>>

\* create_sorted_images_dir(dest_directory): DirBuilder's create, not
\* recursive, returns Ok or an error; on the error main prints a message and
\* calls std::process::exit(1)
CreateSortedImagesDir ==
    /\ m_pc = "create_sorted_images_dir"
    /\ \E r \in {"Ok", "Err"} :
         /\ m_setup' = r
         /\ m_pc' = IF r = "Ok" THEN "create_unsorted_images_dir" ELSE "exit(1)"
    /\ UNCHANGED <<NB, errors_details, m_dir, m_task, m_result, m_summary,
                   mainFrame>>

\* create_unsorted_images_dir(sorted_images_directory).unwrap(): the loop is
\* entered, or main panics
CreateUnsortedImagesDir ==
    /\ m_pc = "create_unsorted_images_dir"
    /\ \E r \in {"Ok", "Err"} :
         m_pc' = IF r = "Ok" THEN "loop" ELSE "panicked"
    /\ UNCHANGED <<NB, errors_details, m_dir, m_task, m_result, m_setup,
                   m_summary, mainFrame>>

\* sort_images_in_dir(dir) is called: get_files_from_dir(dir)? returns the
\* error of read_dir to main, or the files go to par_iter().for_each
SortImagesInDir ==
    /\ m_pc = "loop"
    /\ \/ /\ m_result' = [m_result EXCEPT ![m_dir] = "Err"]
          /\ m_pc' = "match"
       \/ /\ m_pc' = "for_each"
          /\ UNCHANGED m_result
    /\ UNCHANGED <<NB, errors_details, m_dir, m_task, m_setup, m_summary,
                   mainFrame>>

\* a pool thread starts the closure of a file of the directory
ClosureStarts(f) ==
    /\ m_pc = "for_each"
    /\ m_task[m_dir][f] = "todo"
    /\ Cardinality(Running) < NumThreads
    /\ m_task' = [m_task EXCEPT ![m_dir][f] = "running"]
    /\ UNCHANGED <<NB, errors_details, m_pc, m_dir, m_result, m_setup,
                   m_summary, mainFrame>>

\* the closure ends: the file is in one of its terminal states, an errored
\* file with its entry in errors_details, or the closure panicked
ClosureEnds(f) ==
    /\ m_pc = "for_each"
    /\ m_task[m_dir][f] = "running"
    /\ \E end \in Terminal \cup {"panicked"} :
         /\ m_task' = [m_task EXCEPT ![m_dir][f] = end]
         /\ errors_details' = IF end = "errored"
                              THEN Append(errors_details, <<m_dir, f>>)
                              ELSE errors_details
    /\ UNCHANGED <<NB, m_pc, m_dir, m_result, m_setup, m_summary, mainFrame>>

\* for_each returning once every closure has started, ended or not
ForEachReturns_NoJoin ==
    /\ m_pc = "for_each"
    /\ \A f \in FileIdx : m_task[m_dir][f] # "todo"
    /\ m_pc' = "match"
    /\ m_result' = [m_result EXCEPT ![m_dir] = "Ok"]
    /\ UNCHANGED <<NB, errors_details, m_dir, m_task, m_setup, m_summary,
                   mainFrame>>

\* for_each returns when every closure is over, and sort_images_in_dir
\* returns Ok(()); the panic of a closure is resumed in main, which unwinds
ForEachReturns ==
    /\ m_pc = "for_each"
    /\ \A f \in FileIdx : m_task[m_dir][f] \in Terminal \cup {"panicked"}
    /\ IF \E f \in FileIdx : m_task[m_dir][f] = "panicked"
       THEN /\ m_pc' = "panicked"
            /\ UNCHANGED m_result
       ELSE /\ m_pc' = "match"
            /\ m_result' = [m_result EXCEPT ![m_dir] = "Ok"]
    /\ UNCHANGED <<NB, errors_details, m_dir, m_task, m_setup, m_summary,
                   mainFrame>>

\* main's match on the result: the error is logged, anything else counts
\* the directory; then the next directory, or the end of the loop
MatchResult ==
    /\ m_pc = "match"
    /\ IF m_result[m_dir] = "Err" THEN UNCHANGED NB ELSE directory_processed
    /\ m_dir' = m_dir + 1
    /\ m_pc' = IF m_dir = NumDirs THEN "done" ELSE "loop"
    /\ UNCHANGED <<errors_details, m_task, m_result, m_setup, m_summary,
                   mainFrame>>

\* the error details print_reporting lists: all of them up to ten, the
\* first ten of more
listed_errors(details) ==
    IF Len(details) <= 10 THEN details ELSE SubSeq(details, 1, 10)

\* Reporting::print_reporting(), after the loop: the counters are loaded and
\* the statistics read under the read lock, and the summary is printed
PrintReporting ==
    /\ m_pc = "done"
    /\ m_summary' = <<[nb_directories |-> NB["DIRECTORIES"],
                       errors |-> listed_errors(errors_details)]>>
    /\ m_pc' = "printed"
    /\ UNCHANGED <<NB, errors_details, m_dir, m_task, m_result, m_setup,
                   mainFrame>>

NextMain ==
    \/ CreateSortedImagesDir
    \/ CreateUnsortedImagesDir
    \/ SortImagesInDir
    \/ \E f \in FileIdx : ClosureStarts(f) \/ ClosureEnds(f)
    \/ ForEachReturns
    \/ MatchResult
    \/ PrintReporting

SpecMain == InitMain /\ [][NextMain]_vars

\* main and the pool threads keep running as long as they can
SpecMainFair == SpecMain /\ WF_vars(NextMain)


(***************************************************************************)
(* The global pool of rayon given a list longer than its threads           *)
(***************************************************************************)
\* number of files of the directory in the pool spec, above NumThreads
NumQueued == 5

QueueIdx == 1..NumQueued

\* the closures of the pool that have started and not ended
Busy == {i \in QueueIdx : q_task[i] = "running"}

\* par_iter().for_each has been called on the files: no closure started
InitPool ==
    /\ q_task = [i \in QueueIdx |-> "todo"]
    /\ PipelineOff
    /\ DupIdle
    /\ GeoIdle
    /\ ParseIdle
    /\ DateIdle
    /\ MainIdle
    /\ TreeIdle
    /\ LockIdle

poolFrame == <<configuration, files, dirs, CREATED_DIRS_CACHE, NB,
               errors_details, task, batch, start_NB, credit, dupVars,
               geoVars, parseVars, REPORTING, dateVars, mainVars, treeVars,
               lockVars>>

\* a pool that starts a closure for every file at once
PoolStarts_ThreadPerFile(i) ==
    /\ q_task[i] = "todo"
    /\ q_task' = [q_task EXCEPT ![i] = "running"]
    /\ UNCHANGED poolFrame

\* a thread of the global pool, built with num_threads(4) by the first
\* sort_images_in_dir (later build_global calls fail and are ignored),
\* takes a file, in no particular order, and runs the closure
PoolStarts(i) ==
    /\ q_task[i] = "todo"
    /\ Cardinality(Busy) < NumThreads
    /\ q_task' = [q_task EXCEPT ![i] = "running"]
    /\ UNCHANGED poolFrame

\* the closure returns, its file terminal, or panics: the thread is free
PoolEnds(i) ==
    /\ q_task[i] = "running"
    /\ q_task' = [q_task EXCEPT ![i] = "ended"]
    /\ UNCHANGED poolFrame

NextPool == \E i \in QueueIdx : PoolStarts(i) \/ PoolEnds(i)

SpecPool == InitPool /\ [][NextPool]_vars

-----------------------------------------------------------------------------
\* main's listing of the source directories: get_subdirectories_recursive
\* on a directory tree, then the source directory pushed last

MaxNodes == 4
NodeIdx == 1..MaxNodes

\* the entries a tree can hold: a directory, a directory read_dir fails on,
\* and a file
Kinds == {"dir", "denied", "file"}

\* node 1 is the source directory; every other entry lies in a directory
\* created before it that can be read
Trees ==
    {t \in [NodeIdx -> [parent : 0..MaxNodes, kind : Kinds]] :
        /\ t[1] = [parent |-> 0, kind |-> "dir"]
        /\ \A n \in NodeIdx \ {1} :
             /\ t[n].parent \in 1..(n - 1)
             /\ t[t[n].parent].kind = "dir"}

InitTree ==
    /\ t_tree \in Trees
    /\ t_result = <<>>
    /\ PipelineOff
    /\ DupIdle
    /\ GeoIdle
    /\ ParseIdle
    /\ DateIdle
    /\ MainIdle
    /\ PoolIdle
    /\ LockIdle

treeFrame == <<configuration, files, dirs, CREATED_DIRS_CACHE, NB,
               errors_details, task, batch, start_NB, credit, dupVars,
               geoVars, parseVars, REPORTING, dateVars, mainVars, poolVars,
               lockVars>>

\* the entries of the tree in the order read_dir yields them
Entries == [n \in NodeIdx |-> n]

RECURSIVE IsBelow(_, _)
\* n lies below top, at any depth
IsBelow(n, top) ==
    /\ n # 1
    /\ \/ t_tree[n].parent = top
       \/ IsBelow(t_tree[n].parent, top)

\* the listing taken for every directory below top, at any depth
get_subdirectories_Descendants(top) ==
    SelectSeq(Entries, LAMBDA n : IsBelow(n, top) /\ t_tree[n].kind # "file")

\* get_subdirectories(top): the entries of top for which is_dir() holds
get_subdirectories(top) ==
    SelectSeq(Entries,
              LAMBDA n : t_tree[n].parent = top /\ t_tree[n].kind # "file")

\* the error of read_dir, passed on by ?
ReadDirErr == [ok |-> FALSE, directories |-> <<>>]

RECURSIVE get_subdirectories_recursive(_)
RECURSIVE for_sub_dir(_, _)

\* for d in &sub_dir: the listing of d is appended, or its error returned
for_sub_dir(sub_dir, directories) ==
    IF sub_dir = <<>>
    THEN [ok |-> TRUE, directories |-> directories]
    ELSE LET r == get_subdirectories_recursive(Head(sub_dir))
         IN  IF r.ok
             THEN for_sub_dir(Tail(sub_dir), directories \o r.directories)
             ELSE ReadDirErr

\* get_subdirectories_recursive(top): the subdirectories of top, then the
\* listing of each of them in turn
get_subdirectories_recursive(top) ==
    IF t_tree[top].kind = "denied"
    THEN ReadDirErr
    ELSE LET sub_dir == get_subdirectories(top)
         IN  for_sub_dir(sub_dir, sub_dir)

\* main calls get_subdirectories_recursive(source)
GetSubdirectoriesRecursive ==
    /\ t_result = <<>>
    /\ LET r == get_subdirectories_recursive(1)
       IN  t_result' = <<[pc |-> IF r.ok THEN "push" ELSE "exit(1)",
                          all_directories |-> r.directories]>>
    /\ UNCHANGED <<t_tree, treeFrame>>

\* all_directories.push(source)
PushSource ==
    /\ t_result # <<>>
    /\ t_result[1].pc = "push"
    /\ t_result' = <<[pc |-> "listed",
                      all_directories |-> Append(t_result[1].all_directories, 1)]>>
    /\ UNCHANGED <<t_tree, treeFrame>>

NextTree ==
    \/ GetSubdirectoriesRecursive
    \/ PushSource

SpecTree == InitTree /\ [][NextTree]_vars

-----------------------------------------------------------------------------
\* the locks of the pipeline, acquisition by acquisition: what each closure
\* locks, in which order, and what it does while it holds nothing

NumWorkers == 2
WorkerIdx == 1..NumWorkers

\* the four locks: two Mutex, two RwLock that the closures only write-lock
Locks == {"GEOCODING_CACHE", "PERF_METRICS", "CREATED_DIRS_CACHE",
          "REPORTING_WRAPPER"}

Lock(l) == [op |-> "lock", on |-> l]
Unlock(l) == [op |-> "unlock", on |-> l]
Io(what) == [op |-> "io", on |-> what]

\* find_place, cache hit: record_geocoding is called, and the place
\* returned, inside the block that holds the cache
FindPlaceHit ==
    <<Lock("GEOCODING_CACHE"), Lock("PERF_METRICS"), Unlock("PERF_METRICS"),
      Unlock("GEOCODING_CACHE")>>

\* find_place, cache miss, with record_geocoding called inside the block
\* that puts the place in the cache, after the metrics are locked
FindPlaceMiss_PutUnderMetrics ==
    <<Lock("GEOCODING_CACHE"), Unlock("GEOCODING_CACHE"),
      Io("reverse_geocoder.search"),
      Lock("PERF_METRICS"), Lock("GEOCODING_CACHE"),
      Unlock("GEOCODING_CACHE"), Unlock("PERF_METRICS")>>

\* find_place, cache miss: the get block ends, the search runs, the put
\* block locks the cache again, and record_geocoding runs after it
FindPlaceMiss ==
    <<Lock("GEOCODING_CACHE"), Unlock("GEOCODING_CACHE"),
      Io("reverse_geocoder.search"),
      Lock("GEOCODING_CACHE"), Unlock("GEOCODING_CACHE"),
      Lock("PERF_METRICS"), Unlock("PERF_METRICS")>>

\* add_place, add_device, update_date_range: one write lock each
Statistics ==
    <<Lock("REPORTING_WRAPPER"), Unlock("REPORTING_WRAPPER"),
      Lock("REPORTING_WRAPPER"), Unlock("REPORTING_WRAPPER"),
      Lock("REPORTING_WRAPPER"), Unlock("REPORTING_WRAPPER")>>

\* create_subdir, the directory is in the cache
CreateSubdirHit ==
    <<Lock("CREATED_DIRS_CACHE"), Unlock("CREATED_DIRS_CACHE")>>

\* create_subdir, the directory is not in the cache and DirBuilder fails
CreateSubdirErr ==
    <<Lock("CREATED_DIRS_CACHE"), Unlock("CREATED_DIRS_CACHE"),
      Io("DirBuilder::create")>>

\* create_subdir, the directory is not in the cache: DirBuilder,
\* record_directory_creation, then the insert
CreateSubdirMiss ==
    <<Lock("CREATED_DIRS_CACHE"), Unlock("CREATED_DIRS_CACHE"),
      Io("DirBuilder::create"),
      Lock("PERF_METRICS"), Unlock("PERF_METRICS"),
      Lock("CREATED_DIRS_CACHE"), Unlock("CREATED_DIRS_CACHE")>>

\* check_for_duplicate_and_rename, then copy_file_with_metrics: fs::copy,
\* then record_file_copy
CopySortedFile ==
    <<Io("try_exists"), Io("fs::copy"),
      Lock("PERF_METRICS"), Unlock("PERF_METRICS")>>

\* the duplicate check or the copy fails
CopySortedFileErr == <<Io("try_exists"), Io("fs::copy")>>

\* copy_unsorted_image_in_specific_dir: DirBuilder, copy_file_with_metrics
CopyUnsortedFile ==
    <<Io("DirBuilder::create"), Io("fs::copy"),
      Lock("PERF_METRICS"), Unlock("PERF_METRICS")>>

CopyUnsortedFileErr == <<Io("DirBuilder::create"), Io("fs::copy")>>

\* Reporting::add_error, after the atomic error_on_image
AddErrorLocks == <<Lock("REPORTING_WRAPPER"), Unlock("REPORTING_WRAPPER")>>

To(stage, todo) == [stage |-> stage, todo |-> todo]

\* what a closure can do next at the end of a stage: the calls of
\* get_exif_data, of the closure's match and of sort_image_from_exif_data
Continuations(stage) ==
    CASE stage = "todo" ->
            {To("get_exif_data", <<Io("read_from_container")>>)}
      [] stage = "get_exif_data" ->
            {To("find_place", FindPlaceHit), To("find_place", FindPlaceMiss),
             To("statistics", Statistics), To("add_error", AddErrorLocks),
             To("copy_unsorted", CopyUnsortedFile),
             To("copy_failed", CopyUnsortedFileErr),
             To("ended", <<>>)}
      [] stage = "find_place" ->
            {To("statistics", Statistics), To("ended", <<>>)}
      [] stage = "statistics" ->
            {To("create_subdir_1", CreateSubdirHit),
             To("create_subdir_1", CreateSubdirMiss),
             To("copy_failed", CreateSubdirErr)}
      [] stage = "create_subdir_1" ->
            {To("create_subdir_2", CreateSubdirHit),
             To("create_subdir_2", CreateSubdirMiss),
             To("copy_failed", CreateSubdirErr)}
      [] stage = "create_subdir_2" ->
            {To("create_subdir_3", CreateSubdirHit),
             To("create_subdir_3", CreateSubdirMiss),
             To("copy_failed", CreateSubdirErr),
             To("copy", CopySortedFile), To("copy_failed", CopySortedFileErr)}
      [] stage = "create_subdir_3" ->
            {To("copy", CopySortedFile), To("copy_failed", CopySortedFileErr)}
      [] stage = "copy_failed" -> {To("add_error", AddErrorLocks)}
      [] OTHER -> {To("ended", <<>>)}

InitLocks ==
    /\ l_stage = [w \in WorkerIdx |-> "todo"]
    /\ l_todo = [w \in WorkerIdx |-> <<>>]
    /\ l_held = [w \in WorkerIdx |-> <<>>]
    /\ PipelineOff
    /\ DupIdle
    /\ GeoIdle
    /\ ParseIdle
    /\ DateIdle
    /\ MainIdle
    /\ PoolIdle
    /\ TreeIdle

locksFrame == <<configuration, files, dirs, CREATED_DIRS_CACHE, NB,
                errors_details, task, batch, start_NB, credit, dupVars,
                geoVars, parseVars, REPORTING, dateVars, mainVars, poolVars,
                treeVars>>

\* the locks some closure holds
Held == {l \in Locks : \E w \in WorkerIdx : \E i \in 1..Len(l_held[w]) :
                          l_held[w][i] = l}

\* the closure of w goes on to its next call
Enter(w) ==
    /\ l_stage[w] # "ended"
    /\ l_todo[w] = <<>>
    /\ \E n \in Continuations(l_stage[w]) :
         /\ l_stage' = [l_stage EXCEPT ![w] = n.stage]
         /\ l_todo' = [l_todo EXCEPT ![w] = n.todo]
    /\ UNCHANGED <<l_held, locksFrame>>

\* lock() or write() returns: nobody holds the lock, the caller included
Acquire(w) ==
    /\ l_todo[w] # <<>>
    /\ Head(l_todo[w]).op = "lock"
    /\ Head(l_todo[w]).on \notin Held
    /\ l_held' = [l_held EXCEPT ![w] = Append(@, Head(l_todo[w]).on)]
    /\ l_todo' = [l_todo EXCEPT ![w] = Tail(@)]
    /\ UNCHANGED <<l_stage, locksFrame>>

\* the guard taken last goes out of scope
Release(w) ==
    /\ l_todo[w] # <<>>
    /\ Head(l_todo[w]).op = "unlock"
    /\ l_held[w] # <<>>
    /\ l_held[w][Len(l_held[w])] = Head(l_todo[w]).on
    /\ l_held' = [l_held EXCEPT ![w] = SubSeq(@, 1, Len(@) - 1)]
    /\ l_todo' = [l_todo EXCEPT ![w] = Tail(@)]
    /\ UNCHANGED <<l_stage, locksFrame>>

\* a call into the file system or the geocoder returns
DoIo(w) ==
    /\ l_todo[w] # <<>>
    /\ Head(l_todo[w]).op = "io"
    /\ l_todo' = [l_todo EXCEPT ![w] = Tail(@)]
    /\ UNCHANGED <<l_stage, l_held, locksFrame>>

NextLocks ==
    \E w \in WorkerIdx :
        \/ Enter(w)
        \/ Acquire(w)
        \/ Release(w)
        \/ DoIo(w)

SpecLocks == InitLocks /\ [][NextLocks]_vars


(***************************************************************************)
Ended(outcome) == {f \in FileIdx : task[f].pc = outcome}

Increase(c) == NB[c] - start_NB[c]

RECURSIVE Credited(_, _)
Credited(c, n) == IF n = 0 THEN 0 ELSE credit[n][c] + Credited(c, n - 1)

\* C1: once for_each is over, sorted + unsorted + errored + skipped files
\* are the N files of the directory, and the sorted, unsorted and error
\* counters increased by the number of files with that outcome.
C1_OutcomesSumToN ==
    batch # "running" =>
        /\ Cardinality(Ended("sorted")) + Cardinality(Ended("unsorted"))
             + Cardinality(Ended("errored")) + Cardinality(Ended("skipped"))
           = NumFiles
        /\ Increase("SORTED_IMAGES") = Cardinality(Ended("sorted"))
        /\ Increase("UNSORTED_IMAGES") = Cardinality(Ended("unsorted"))
        /\ Increase("ERROR_ON_IMAGES") = Cardinality(Ended("errored"))

\* the same, for the runs in which no closure panicked: the atomic counters
\* lose no increment in any interleaving
OutcomesSumToN_Returned ==
    batch = "returned" =>
        /\ Cardinality(Ended("sorted")) + Cardinality(Ended("unsorted"))
             + Cardinality(Ended("errored")) + Cardinality(Ended("skipped"))
           = NumFiles
        /\ Increase("SORTED_IMAGES") = Cardinality(Ended("sorted"))
        /\ Increase("UNSORTED_IMAGES") = Cardinality(Ended("unsorted"))
        /\ Increase("ERROR_ON_IMAGES") = Cardinality(Ended("errored"))

\* C2: whenever a closure copies its file into the sorted tree, the
\* destination does not exist when the copy starts.
C2_DestinationFreeAtCopy ==
    [][\A f \in FileIdx :
         (task[f].pc = "copy" /\ task'[f].pc = "image_processed_sorted")
            => task[f].to \notin DOMAIN files]_vars

\* C3: every file of the batch ends sorted, unsorted, errored or skipped,
\* whatever happened to the others: when for_each is over no file is left
\* in another state, and every errored file has its error recorded.
C3_EveryFileTerminal ==
    batch # "running" =>
        \A f \in FileIdx :
            /\ task[f].pc \in Terminal
            /\ task[f].pc = "errored" =>
                 \E i \in 1..Len(errors_details) : errors_details[i][1] = f

\* C4: the copy of a file without usable metadata is made below the
\* unsorted root, at the source path appended to it; it is never the source
\* file itself, whose content stays what it was.
C4_UnsortedCopyBelowRoot ==
    \A f \in FileIdx :
        (task[f].result \in {"NoExifData", "Decoding"} /\ task[f].to # <<>>) =>
            /\ starts_with(task[f].to, configuration.unsorted_images_directory)
            /\ task[f].to # SourceFile(f)
            /\ files[SourceFile(f)] = Content(f)

\* C5: a file without usable metadata whose unsorted copy succeeded added
\* exactly 1 to the unsorted counter and nothing to the error and sorted
\* counters; one whose unsorted copy failed added exactly 1 to the error
\* counter and nothing to the unsorted counter. The counters are the sum of
\* what the files added.
C5_UnsortedCounting ==
    /\ \A f \in FileIdx :
         task[f].result \in {"NoExifData", "Decoding"} =>
            /\ task[f].pc = "unsorted" =>
                 /\ credit[f]["UNSORTED_IMAGES"] = 1
                 /\ credit[f]["ERROR_ON_IMAGES"] = 0
                 /\ credit[f]["SORTED_IMAGES"] = 0
            /\ task[f].pc = "errored" =>
                 /\ credit[f]["ERROR_ON_IMAGES"] = 1
                 /\ credit[f]["UNSORTED_IMAGES"] = 0
                 /\ credit[f]["SORTED_IMAGES"] = 0
    /\ \A c \in CounterNames : Increase(c) = Credited(c, NumFiles)

\* a file ended unsorted and another errored on its unsorted copy
C5_Witness ==
    \E f, g \in FileIdx :
        /\ task[f].result = "NoExifData" /\ task[f].pc = "unsorted"
        /\ task[g].result \in {"NoExifData", "Decoding"}
        /\ task[g].pc = "errored" /\ task[g].reason = "copy"

\* the file name "{stem}_duplicate_{n}{ext}" the specification describes
SpecifiedCandidate(file, n) ==
    LET name == file_name(file)
    IN  with_file_name(file,
            file_stem(name) \o <<"_duplicate_", ToString(n)>>
              \o (IF extension(name) = {} THEN <<>>
                  ELSE <<".">> \o (CHOOSE e \in extension(name) : TRUE)))

\* a name of the specified form is taken: the draws may all collide
SpecifiedNameTaken ==
    \E n \in RandomRange : Exists(SpecifiedCandidate(d_file, n))

\* C6: called with a path where a file exists, the function returns a path
\* different from it that does not exist (the exhaustion of C9 is granted
\* when names of the specified form are taken); called with a path where
\* nothing exists it returns None.
C6_ReturnsFreePath ==
    d_pc = "returned" =>
        /\ d_file \in DOMAIN files =>
             \/ /\ d_result.kind = "Some"
                /\ d_result.path # d_file
                /\ ~Exists(d_result.path)
             \/ SpecifiedNameTaken
        /\ ~Exists(d_file) => d_result.kind = "None"

\* C7: sequential calls for the same occupied path, a file being created at
\* each returned path before the next call, all return a path; the paths
\* are pairwise distinct, differ from the path asked for and do not exist
\* when returned (the exhaustion of C9 is granted as in C6).
C7_SequentialCallsDistinct ==
    (d_pc = "returned" /\ d_scenario) =>
        /\ \A i, j \in 1..Len(d_log) : i # j => d_log[i] # d_log[j]
        /\ \A i \in 1..Len(d_log) : d_log[i] # d_file
        /\ \/ Len(d_log) = d_calls /\ ~Exists(d_result.path)
           \/ SpecifiedNameTaken

\* C8: the returned candidate is named "{stem}_duplicate_{n}{ext}" with
\* 100 <= n < 100000, in the directory of the desired path.
C8_CandidateName ==
    (d_pc = "returned" /\ d_result.kind = "Some") =>
        /\ parent(d_result.path) = parent(d_file)
        /\ \E n \in RandomRange :
             /\ RandLow <= n /\ n < RandHigh
             /\ d_result.path = SpecifiedCandidate(d_file, n)

\* C9: a call makes at most 1000 candidate checks; the loop never stays
\* without an attempt left; the exhaustion error is returned exactly after
\* 1000 checks that all found the candidate taken, and is an error, not a
\* path.
C9_BoundedAttempts ==
    /\ d_attempt <= MaxAttempts
    /\ d_pc = "loop" => d_attempt < MaxAttempts
    /\ (d_pc = "returned" /\ d_result.msg = ErrExhaustedMsg) =>
         /\ d_attempt = MaxAttempts
         /\ d_result.kind = "Err"
         /\ d_result.path = <<>>
    /\ (d_pc = "returned" /\ d_attempt = MaxAttempts /\ d_result.kind # "Some") =>
         /\ d_result.kind = "Err"
         /\ d_result.msg = ErrExhaustedMsg

\* a call ended with the exhaustion error
C9_Witness ==
    /\ d_pc = "returned"
    /\ d_result.msg = ErrExhaustedMsg
    /\ d_attempt = MaxAttempts

\* C10: called with the path of an existing directory, the function returns
\* the directory error, which is not the exhaustion error, has tried no
\* candidate and has left the duplicate counter as it was.
C10_DirectoryRejected ==
    (d_pc = "returned" /\ d_file \in dirs) =>
        /\ d_result.kind = "Err"
        /\ d_result.msg = ErrIsDirMsg
        /\ d_result.msg # ErrExhaustedMsg
        /\ d_attempt = 0
        /\ NB["DUPLICATES_RENAMED"] = start_NB["DUPLICATES_RENAMED"]
        /\ d_log = <<>>

\* a call for a directory has returned
C10_Witness ==
    /\ d_pc = "returned"
    /\ d_file \in dirs
    /\ d_calls >= 1

\* C11: a call that returned a replacement path added exactly 1 to the
\* duplicate-renamed counter, a call that returned None, the directory error
\* or the exhaustion error added 0; after any sequence of calls the counter
\* is the number of calls that returned a replacement path, and no other
\* counter moved.
C11_DuplicateCounter ==
    /\ d_pc = "returned" =>
         NB["DUPLICATES_RENAMED"] - start_NB["DUPLICATES_RENAMED"]
           = (IF d_result.kind = "Some" THEN 1 ELSE 0)
    /\ d_pc \in {"idle", "returned"} => NB["DUPLICATES_RENAMED"] = Len(d_log)
    /\ d_pc = "loop" => NB["DUPLICATES_RENAMED"] = start_NB["DUPLICATES_RENAMED"]
    /\ \A c \in CounterNames \ {"DUPLICATES_RENAMED"} : NB[c] = 0

\* two calls returned a replacement path and a third one the exhaustion error
C11_Witness ==
    /\ d_pc = "returned"
    /\ d_result.msg = ErrExhaustedMsg
    /\ d_calls = 3
    /\ NB["DUPLICATES_RENAMED"] = 2

\* the directory a call of create_subdir made by the closure of f is for
AskedDir(f) == join(task[f].buf, SubDir(task[f].level))

\* the closure of f is past its calls of create_subdir
PastSubdirs(f) ==
    task[f].pc \in {"check_duplicate", "copy", "image_processed_sorted",
                    "image_processed_sorted_2", "sorted"}

NoEarlierRun == \A p \in DOMAIN files : files[p] # "earlier"

\* C12: a call of create_subdir made with the arguments of a call that has
\* returned is a cache hit: it returns Ok(parent.join(child)), the same path
\* as the first call, without going to DirBuilder; the disk and the cache
\* are as before and the directory exists. The call that created the
\* directory returned that same path.
C12_SecondCallIsCacheHit ==
    [][\A f \in FileIdx :
         /\ (task[f].pc = "create_subdir" /\ task'[f] # task[f]
                /\ AskedDir(f) \in CREATED_DIRS_CACHE) =>
               /\ task'[f].pc \in {"create_subdir", "check_duplicate"}
               /\ task'[f].buf = AskedDir(f)
               /\ task'[f].buf \in dirs'
               /\ dirs' = dirs /\ files' = files
               /\ CREATED_DIRS_CACHE' = CREATED_DIRS_CACHE
         /\ (task[f].pc = "cache_insert" /\ task'[f] # task[f]) =>
               /\ task'[f].buf = AskedDir(f)
               /\ task'[f].buf \in dirs'
               /\ task'[f].buf \in CREATED_DIRS_CACHE']_vars

\* in a run that started with an empty cache, a closure got all its
\* directories from the cache after another closure created them
C12_Witness ==
    \E f, g \in FileIdx :
        /\ f # g
        /\ NoEarlierRun
        /\ task[g].new_dir # <<>>
        /\ task[f].new_dir = <<>>
        /\ task[f].pc = "check_duplicate"

\* C13: workers that call create_subdir for the same directory while it is
\* not cached all get Ok and the same path, in every interleaving: no call
\* fails because another worker made the directory first, a call that is
\* about to insert has its directory on the disk, and the closures past
\* create_subdir hold the same existing, cached directory.
C13_ConcurrentCreateSubdir ==
    /\ \A f \in FileIdx :
         /\ task[f].reason \notin {"AlreadyExists", "NotFound", "NotADirectory"}
         /\ task[f].pc = "cache_insert" => task[f].new_dir \in dirs
         /\ PastSubdirs(f) =>
              /\ task[f].buf = DestinationDir(configuration.use_device)
              /\ task[f].buf \in dirs
              /\ task[f].buf \in CREATED_DIRS_CACHE
    /\ \A f, g \in FileIdx :
         (PastSubdirs(f) /\ PastSubdirs(g)) => task[f].buf = task[g].buf

\* two workers found the same directory missing from the cache and both
\* had it created by DirBuilder
C13_Witness ==
    \E f, g \in FileIdx :
        /\ f # g
        /\ task[f].pc = "cache_insert"
        /\ task[g].pc = "cache_insert"
        /\ task[f].new_dir = task[g].new_dir

\* C14: every path of the directory cache is a directory of the disk; a
\* path enters the cache only through the insert of a create_subdir call
\* whose DirBuilder succeeded; when DirBuilder fails the call returns the
\* error to the closure's error arm and the cache and the disk are
\* unchanged.
C14_CacheHoldsCreatedDirs ==
    [][/\ CREATED_DIRS_CACHE \subseteq dirs
       /\ CREATED_DIRS_CACHE' \subseteq dirs'
       /\ CREATED_DIRS_CACHE' # CREATED_DIRS_CACHE =>
            \E f \in FileIdx :
                /\ task[f].pc = "cache_insert"
                /\ task[f].new_dir \in dirs
                /\ CREATED_DIRS_CACHE' = CREATED_DIRS_CACHE \cup {task[f].new_dir}
       /\ \A f \in FileIdx :
            /\ (task[f].pc = "dir_builder" /\ task'[f].pc = "cache_insert") =>
                 task[f].new_dir \in dirs'
            /\ (task[f].pc = "dir_builder"
                   /\ task'[f].pc \notin {"dir_builder", "cache_insert"}) =>
                 /\ task'[f].pc = "error_on_image"
                 /\ CREATED_DIRS_CACHE' = CREATED_DIRS_CACHE
                 /\ dirs' = dirs]_vars

\* a creation failed, its path is not cached, and another creation was cached
C14_Witness ==
    \E f \in FileIdx :
        /\ task[f].reason = "io"
        /\ task[f].pc = "errored"
        /\ task[f].new_dir \notin CREATED_DIRS_CACHE
        /\ CREATED_DIRS_CACHE # {}
        /\ NoEarlierRun

\* the characters [A-Za-z0-9_ ] among those of the model
AsciiAllowed == {"a", "Z", "7", "_", " "}

\* C19 as claimed: the output of Directory::parse has no character outside
\* [A-Za-z0-9_ ].
C19_OutputAsciiOnly ==
    p_pc >= 1 => \A i \in 1..Len(p_output[1]) : p_output[1][i] \in AsciiAllowed

\* C19 as amended: the output of Directory::parse has the length of its
\* input and no character outside the Unicode word characters (letters,
\* digits, underscore) and the space; it has no character outside
\* [A-Za-z0-9_ ] when the input has no letter or digit outside ASCII.
C19_OutputWordOrSpace ==
    p_pc >= 1 =>
        /\ Len(p_output[1]) = Len(p_input)
        /\ \A i \in 1..Len(p_output[1]) : p_output[1][i] \notin NotWord \ {" "}
        /\ (\A i \in 1..Len(p_input) : p_input[i] # "é") =>
              \A i \in 1..Len(p_output[1]) : p_output[1][i] \in AsciiAllowed

\* a string with a letter outside ASCII and a character to replace was parsed
C19_Witness ==
    /\ p_pc >= 1
    /\ \E i, j \in 1..Len(p_input) : p_input[i] = "é" /\ p_input[j] = "/"
    /\ \E i \in 1..Len(p_output[1]) : p_output[1][i] = "é"

\* C20: Directory::parse applied to its own result returns that result.
C20_ParseIdempotent ==
    \A k \in 2..p_pc : p_output[k] = p_output[1]

\* parse changed its input and was applied to the result
C20_Witness ==
    /\ p_pc >= 2
    /\ p_output[1] # p_input
    /\ \E i \in 1..Len(p_input) : p_input[i] = "-"

\* the events of the log of one kind
EventsOf(kind) == {i \in 1..Len(g_log) : g_log[i].kind = kind}

\* the key was evicted by a put logged strictly between events i and j
EvictedBetween(key, i, j) ==
    \E e \in (i + 1)..(j - 1) : g_log[e].kind = "put" /\ key \in g_log[e].evicted

\* C15 as claimed: of two calls of find_place with the same cache key only
\* one invokes the search, unless the entry was evicted in between.
C15_SearchAtMostOnce ==
    \A i, j \in EventsOf("search") :
        (i < j /\ g_log[i].key = g_log[j].key) =>
            EvictedBetween(g_log[i].key, i, j)

\* C15 as amended: a call of find_place that starts after a call with the
\* same cache key has returned invokes no search, unless the entry was
\* evicted in between; a call served from the cache invokes no search and
\* returns the cached name.
C15_SecondCallServedFromCache ==
    /\ \A p \in EventsOf("put"), m \in EventsOf("miss") :
         (p < m /\ g_log[p].key = g_log[m].key) =>
            EvictedBetween(g_log[p].key, p, m + 1)
    /\ \A h \in EventsOf("hit") :
         /\ \A e \in EventsOf("search") : g_log[e].f # g_log[h].f
         /\ g_task[g_log[h].f].pc = "done"
         /\ g_task[g_log[h].f].place_name = <<>>
         /\ g_task[g_log[h].f].place # UnknownPlace

\* a call put its result in the cache and a later call of another file with
\* the same key was a hit
C15_Witness ==
    \E p \in EventsOf("put"), h \in EventsOf("hit") :
        /\ p < h
        /\ g_log[p].key = g_log[h].key
        /\ g_log[p].f # g_log[h].f

\* the logged uses of the cache entries: the hits and the insertions
Uses == {i \in 1..Len(g_log) : g_log[i].kind \in {"hit", "put"}}

\* when the key was last used among the logged uses, counted from the
\* oldest of the entries the cache started with (the i-th of them was last
\* used at i); 0 when it never was used
LastUse(key, uses) ==
    LET mine == {i \in uses : g_log[i].key = key}
    IN  IF mine # {}
        THEN g_prefill + (CHOOSE i \in mine : \A j \in mine : j <= i)
        ELSE IF key[2] = 0 /\ key[1] - 100 \in 1..g_prefill
        THEN key[1] - 100
        ELSE 0

\* C16: the cache never holds more than 1000 entries, nor a key twice; it
\* holds the most recently used keys, a hit and an insertion both being a
\* use: every key that was used and is no longer cached was used before
\* every cached key, and left a full cache. So a key requested again after
\* 1000 other keys were used since its last use is a miss.
C16_LruWithinCapacity ==
    LET uses == Uses
        cached == CacheKeys
        logged == {g_log[i].key : i \in uses}
        used == {PrefillKey(i) : i \in 1..g_prefill} \cup logged
        evicted == used \ cached
        UsedSince(last) ==
            Cardinality({k \in logged : LastUse(k, uses) > last})
              + Cardinality({i \in 1..g_prefill :
                               i > last /\ PrefillKey(i) \notin logged})
    IN  /\ Len(GEOCODING_CACHE) <= GeoCapacity
        /\ Cardinality(cached) = Len(GEOCODING_CACHE)
        /\ cached \subseteq used
        /\ evicted # {} =>
             /\ Len(GEOCODING_CACHE) = GeoCapacity
             /\ \A key \in cached :
                  \A old \in evicted : LastUse(old, uses) < LastUse(key, uses)
        /\ \A c \in GeoCoords :
             LET key == cache_key(c[1], c[2])
                 last == LastUse(key, uses)
             IN  (last > 0 /\ UsedSince(last) >= GeoCapacity) => key \notin cached

\* the full cache took a new key, and the key used longest ago, requested
\* again, was a miss
C16_Witness ==
    /\ Len(GEOCODING_CACHE) = GeoCapacity
    /\ \E m \in EventsOf("miss") :
         /\ g_log[m].key = PrefillKey(1)
         /\ \E p \in EventsOf("put") : p < m /\ PrefillKey(1) \in g_log[p].evicted

\* the sentinel the specification names for the coordinates (0,0)
NullIsland == <<"N", "u", "l", "l", " ", "I", "s", "l", "a", "n", "d">>

\* find_place was not called for the file: no cache or search event is its
Untouched(f) == \A i \in 1..Len(g_log) : g_log[i].f # f

round(n, d) ==
    IF n >= 0 THEN (2 * n + d) \div (2 * d) ELSE -((2 * (-n) + d) \div (2 * d))

\* C18: the cache key of find_place is (round(lat*10000), round(long*10000)),
\* and two coordinates more than a cell's width (1/10000 degree) apart
\* never share a key.
C18_KeyIsRounded ==
    /\ \A f \in FileIdx :
         g_task[f].pc = "put" =>
            g_task[f].cache_key = <<round(g_task[f].lat, 10), round(g_task[f].long, 10)>>
    /\ \A f, g \in FileIdx :
         (g_task[f].pc = "put" /\ g_task[g].pc = "put"
            /\ g_task[f].cache_key = g_task[g].cache_key) =>
           /\ g_task[f].lat - g_task[g].lat <= 10
           /\ g_task[g].lat - g_task[f].lat <= 10

\* C21: Directory::parse keeps the number of characters; a letter, a digit
\* or an underscore stays where it is, any other character becomes one
\* space at its position, so that a run of replaced characters gives as
\* many spaces; the empty string gives the empty string.
C21_ParseKeepsPositions ==
    p_pc >= 1 =>
        /\ Len(p_output[1]) = Len(p_input)
        /\ \A i \in 1..Len(p_input) :
             p_output[1][i] = (IF p_input[i] \in {"-", "/", " "} THEN " "
                               ELSE p_input[i])
        /\ p_input = <<>> => p_output[1] = <<>>

\* "a /a" was parsed into "a  a": two replaced characters in a row
C21_Witness ==
    /\ p_pc >= 1
    /\ p_input = <<"a", "-", "/">>
    /\ p_output[1] = <<"a", " ", " ">>

\* the operations of kind op the closure of f has performed
StepsOf(f, op) == {i \in 1..Len(task[f].steps) : task[f].steps[i].op = op}

\* C22: a file that reached the sorted state is found, with its content, in
\* <sorted_root>/<period>/<place> (two levels, use_device false) or in
\* <sorted_root>/<period>/<place>/<device> (use_device true), under its own
\* name, or under the duplicate-resolved name when the desired path was
\* occupied.
C22_SortedFileAtItsPath ==
    \A f \in FileIdx :
        task[f].pc = "sorted" =>
            LET dir == IF configuration.use_device
                       THEN configuration.sorted_images_directory
                                \o << <<YearMonth>>, <<Place>>, <<Device>> >>
                       ELSE configuration.sorted_images_directory
                                \o << <<YearMonth>>, <<Place>> >>
                to == task[f].to
                renamed == \E i \in StepsOf(f, "check_for_duplicate_and_rename") :
                               task[f].steps[i].arg = "Some"
            IN  /\ parent(to) = dir
                /\ to \in DOMAIN files
                /\ files[to] = Content(f)
                /\ file_name(to) # FileName(f) <=> renamed

\* the same without the content: a file is at the path, be it another's
C22_SortedPathExists ==
    \A f \in FileIdx :
        task[f].pc = "sorted" =>
            /\ parent(task[f].to) = DestinationDir(configuration.use_device)
            /\ task[f].to \in DOMAIN files

\* C23: a file whose metadata read ends with NotImageFile is skipped, and
\* that is all: the step changes no counter, no error detail, no place,
\* device or date statistic, creates no directory and copies no file, and
\* the closure does nothing for the file before or after it.
C23_SkippedFrame ==
    /\ [](\A f \in FileIdx :
            task[f].result = "NotImageFile" =>
                /\ task[f].pc = "skipped"
                /\ \A c \in CounterNames : credit[f][c] = 0
                /\ \A i \in 1..Len(errors_details) : errors_details[i][1] # f
                /\ task[f].steps = <<Step("get_exif_data", "NotImageFile", {})>>)
    /\ [][\A f \in FileIdx :
            task'[f].pc = "skipped" /\ task[f].pc # "skipped" =>
                UNCHANGED <<NB, errors_details, REPORTING, dirs, files,
                            CREATED_DIRS_CACHE>>]_vars

\* one file was skipped while the other was sorted and counted
C23_Witness ==
    \E f, g \in FileIdx :
        /\ task[f].pc = "skipped"
        /\ task[g].pc = "sorted"
        /\ Increase("SORTED_IMAGES") = 1
        /\ Increase("IMAGES") = 1

\* what the closure of file f can do next
ClosureStep(f) ==
    \/ GetExifData(f) \/ CollectStatistics(f)
    \/ CreateSubdirLookup(f) \/ CreateSubdirDirBuilder(f)
    \/ CreateSubdirInsert(f) \/ CheckForDuplicate(f) \/ CopySorted(f)
    \/ ImageProcessedSorted(f) \/ CopyUnsorted(f)
    \/ ImageProcessedUnsorted(f) \/ ErrorOnImage(f) \/ AddError(f)

\* the operations of the closure of f that failed
FailedSteps(f) ==
    {i \in 1..Len(task[f].steps) :
        \/ task[f].steps[i].arg = "Err"
        \/ task[f].steps[i] = Step("get_exif_data", "IO", {})}

\* C24: a file whose metadata read, directory creation, copy or duplicate
\* resolution failed ends errored: the error counter went up by one for it,
\* one (path, reason) entry was appended for it, the sorted and unsorted
\* counters did not move for it, and the closures of the other files go on.
C24_ErrorCountedAndRecorded ==
    /\ \A f \in FileIdx :
         FailedSteps(f) # {} =>
            /\ task[f].pc \in {"error_on_image", "add_error", "errored"}
            /\ Cardinality(FailedSteps(f)) = 1
            /\ credit[f]["SORTED_IMAGES"] = 0
            /\ credit[f]["UNSORTED_IMAGES"] = 0
            /\ credit[f]["IMAGES"] = 0
    /\ \A f \in FileIdx :
         task[f].pc = "errored" =>
            /\ FailedSteps(f) # {}
            /\ credit[f]["ERROR_ON_IMAGES"] = 1
            /\ Cardinality({i \in 1..Len(errors_details) :
                                errors_details[i][1] = f}) = 1
            /\ \E i \in 1..Len(errors_details) :
                 errors_details[i] = <<f, task[f].reason>>
            /\ task[f].reason # ""
    /\ Increase("ERROR_ON_IMAGES") =
            Cardinality(Ended("add_error") \cup Ended("errored"))
    /\ Len(errors_details) = Cardinality(Ended("errored"))
    /\ \A f, g \in FileIdx :
         /\ task[f].pc = "errored"
         /\ task[g].pc \notin Terminal \cup {"panicked"}
         => ENABLED ClosureStep(g)

\* the duplicate resolution of one file ran out of candidates; the file is
\* errored and recorded, and the other file was sorted after that
C24_Witness ==
    \E f, g \in FileIdx :
        /\ task[f].pc = "errored"
        /\ task[f].reason = ErrExhaustedMsg
        /\ errors_details = << <<f, ErrExhaustedMsg>> >>
        /\ task[g].pc = "sorted"
        /\ batch = "returned"

\* the increments of the counters of the terminal states done for file f
TerminalUpdates(f) ==
    credit[f]["SORTED_IMAGES"] + credit[f]["UNSORTED_IMAGES"]
        + credit[f]["ERROR_ON_IMAGES"]

\* at most one metadata read, three create_subdir calls (two or three once
\* all the directories are made, by use_device), one duplicate check and
\* one copy per file
OperationsBounded(f) ==
    /\ Cardinality(StepsOf(f, "get_exif_data")) <= 1
    /\ Cardinality(StepsOf(f, "create_subdir")) <= 3
    /\ StepsOf(f, "check_for_duplicate_and_rename") # {} =>
            Cardinality(StepsOf(f, "create_subdir")) =
                (IF configuration.use_device THEN 3 ELSE 2)
    /\ Cardinality(StepsOf(f, "check_for_duplicate_and_rename")) <= 1
    /\ Cardinality(StepsOf(f, "fs::copy")) <= 1

\* C25 as stated: the operations of a file are bounded, and every file that
\* reached a terminal state had exactly one metrics update.
C25_ExactlyOneMetricsUpdate ==
    \A f \in FileIdx :
        /\ OperationsBounded(f)
        /\ task[f].pc \in Terminal => TerminalUpdates(f) = 1

\* C25, amended: the operations of a file are bounded, and the file gets at
\* most one update of a terminal-state counter: one, of the counter of its
\* state, when it ends sorted, unsorted or errored, none when it is skipped.
C25_OneUpdateUnlessSkipped ==
    \A f \in FileIdx :
        /\ OperationsBounded(f)
        /\ TerminalUpdates(f) <= 1
        /\ task[f].pc = "sorted" => credit[f]["SORTED_IMAGES"] = 1
        /\ task[f].pc = "unsorted" => credit[f]["UNSORTED_IMAGES"] = 1
        /\ task[f].pc = "errored" => credit[f]["ERROR_ON_IMAGES"] = 1
        /\ task[f].pc = "skipped" => TerminalUpdates(f) = 0

\* with use_device a file was sorted through three create_subdir calls, one
\* check and one copy, and another file was skipped
C25_Witness ==
    \E f, g \in FileIdx :
        /\ configuration.use_device
        /\ task[f].pc = "sorted"
        /\ Cardinality(StepsOf(f, "create_subdir")) = 3
        /\ Cardinality(StepsOf(f, "fs::copy")) = 1
        /\ task[g].pc = "skipped"

\* the calls of fetch_add on counter c the closures have made so far
Calls(c) ==
    Cardinality({p \in UNION {{<<f, i>> : i \in 1..Len(task[f].steps)} :
                                 f \in FileIdx} :
                    task[p[1]].steps[p[2]] = Step("fetch_add", c, {})})

\* C26: no increment is lost, whatever the interleaving of the closures:
\* each counter rose by the number of calls made on it, the sorted, unsorted
\* and error counters by the number of files in that state, the counter of
\* the directories, which no closure calls, did not move, and an increment
\* changes one counter, by one.
C26_NoIncrementLost ==
    /\ [](/\ \A c \in CounterNames : Increase(c) = Calls(c)
          /\ Increase("SORTED_IMAGES") = Cardinality(Ended("sorted"))
          /\ Increase("UNSORTED_IMAGES") = Cardinality(Ended("unsorted"))
          /\ Increase("ERROR_ON_IMAGES") =
                Cardinality(Ended("add_error") \cup Ended("errored"))
          /\ Increase("DIRECTORIES") = 0)
    /\ [][NB' # NB =>
            \E c \in CounterNames : NB' = [NB EXCEPT ![c] = @ + 1]]_vars

\* the closures of two files ran side by side to the sorted state, one of
\* them renamed: two sorted and one duplicate counted
C26_Witness ==
    /\ Ended("sorted") = {1, 2}
    /\ Increase("SORTED_IMAGES") = 2
    /\ Increase("IMAGES") = 2
    /\ Increase("DUPLICATES_RENAMED") = 1

\* the place of a period in the order of str
Rank(date) == CHOOSE i \in DOMAIN PeriodsInOrder : PeriodsInOrder[i] = date

\* C27: after any sequence of update_date_range calls the oldest date is
\* the smallest and the newest date the largest, in the order of strings,
\* of the periods passed so far, whatever the order of the calls; both are
\* unset before the first call and both set after it, and the oldest is
\* never above the newest.
C27_DateRange ==
    LET passed == {r_dates[i] : i \in 1..Len(r_dates)}
    IN  /\ passed = {} => REPORTING.oldest_date = {} /\ REPORTING.newest_date = {}
        /\ passed # {} =>
              /\ REPORTING.oldest_date =
                    {d \in passed : \A e \in passed : Rank(d) <= Rank(e)}
              /\ REPORTING.newest_date =
                    {d \in passed : \A e \in passed : Rank(e) <= Rank(d)}
        /\ REPORTING.oldest_date = {} <=> REPORTING.newest_date = {}
        /\ \A o \in REPORTING.oldest_date : \A n \in REPORTING.newest_date :
               Rank(o) <= Rank(n)

\* three periods were passed, the middle one first: the oldest and the
\* newest are the ones passed last
C27_Witness ==
    /\ r_dates = <<PeriodsInOrder[3], PeriodsInOrder[5], PeriodsInOrder[1]>>
    /\ REPORTING.oldest_date = {PeriodsInOrder[1]}
    /\ REPORTING.newest_date = {PeriodsInOrder[5]}

\* the operations that go to the file system
IOOperations ==
    {"get_exif_data", "DirBuilder::create", "check_for_duplicate_and_rename",
     "fs::copy"}

\* C28: no closure holds the write lock of REPORTING_WRAPPER or the lock of
\* CREATED_DIRS_CACHE while it reads metadata, creates a directory, checks
\* an existence or copies a file: the locks are held for the lookup, the
\* insert and the statistics only, and no step both changes the disk and a
\* structure behind a lock.
C28_NoLockDuringIO ==
    /\ [](\A f \in FileIdx : \A i \in 1..Len(task[f].steps) :
            LET st == task[f].steps[i]
            IN  /\ st.op \in IOOperations => st.locks = {}
                /\ st.locks # {} =>
                      st.op \in {"create_subdir", "insert", "add_place",
                                 "add_device", "update_date_range", "add_error"})
    /\ [][files' # files \/ dirs' # dirs =>
            UNCHANGED <<CREATED_DIRS_CACHE, REPORTING, errors_details>>]_vars

\* a closure made a directory between its lookup and its insert, both under
\* the lock of the cache, while the closure of another file had copied
C28_Witness ==
    \E f, g \in FileIdx :
        /\ f # g
        /\ \E i \in StepsOf(f, "DirBuilder::create") :
             /\ i + 1 \in StepsOf(f, "insert")
             /\ i - 1 \in StepsOf(f, "create_subdir")
             /\ task[f].steps[i - 1].locks = {"CREATED_DIRS_CACHE"}
        /\ StepsOf(g, "fs::copy") # {}

\* the sub_dir arguments of the create_subdir calls made for f, in order
AskedSubdirs(f) ==
    LET calls == SelectSeq(task[f].steps, LAMBDA st : st.op = "create_subdir")
    IN  [i \in 1..Len(calls) |-> calls[i].arg]

\* C29: within one file the metadata is read first; the directories are
\* asked for in the order period, place, device; every directory is ensured
\* before the duplicate check; the check precedes the copy to the sorted
\* tree; and the sorted counter is incremented only after a copy that
\* succeeded.
C29_StepsInOrder ==
    \A f \in FileIdx :
        LET steps == task[f].steps
            dirSteps == StepsOf(f, "create_subdir") \cup StepsOf(f, "insert")
                            \cup StepsOf(f, "DirBuilder::create")
            checks == StepsOf(f, "check_for_duplicate_and_rename")
        IN  /\ steps # <<>> => StepsOf(f, "get_exif_data") = {1}
            /\ \A i \in 1..Len(AskedSubdirs(f)) :
                 AskedSubdirs(f)[i] = <<YearMonth, Place, Device>>[i]
            /\ \A i \in checks : \A j \in dirSteps : j < i
            /\ task[f].result = "Ok" =>
                 \A j \in StepsOf(f, "fs::copy") : \E i \in checks : i < j
            /\ \A i \in 1..Len(steps) :
                 steps[i] = Step("fetch_add", "SORTED_IMAGES", {}) =>
                    /\ \E j \in 1..(i - 1) : steps[j] = Step("fs::copy", "Ok", {})
                    /\ task[f].to \in DOMAIN files

\* a file went the whole way with the device level, every directory new:
\* read, three directories made, check, copy, counted
C29_Witness ==
    \E f \in FileIdx :
        /\ task[f].pc = "sorted"
        /\ AskedSubdirs(f) = <<YearMonth, Place, Device>>
        /\ Cardinality(StepsOf(f, "DirBuilder::create")) = 3
        /\ task[f].steps[Len(task[f].steps)] = Step("fetch_add", "SORTED_IMAGES", {})

\* C30: the directories are processed one after the other: when a closure
\* of a later directory has started, every file of an earlier directory
\* whose files were listed is in a terminal state; the counter of the
\* directories holds the directories sort_images_in_dir returned Ok for and
\* main has gone past, and it is incremented by one, for the current
\* directory, with every file of it terminal and the result Ok.
C30_DirectoriesInSequence ==
    /\ [](/\ \A k \in DirIdx : \A f \in FileIdx :
               (\E later \in DirIdx : \E g \in FileIdx :
                    later > k /\ m_task[later][g] # "todo")
               => m_task[k][f] \in Terminal \/ m_result[k] = "Err"
          /\ NB["DIRECTORIES"] =
                Cardinality({k \in DirIdx : k < m_dir /\ m_result[k] = "Ok"}))
    /\ [][NB' # NB =>
            /\ NB' = [NB EXCEPT !["DIRECTORIES"] = @ + 1]
            /\ m_result[m_dir] = "Ok"
            /\ \A f \in FileIdx : m_task[m_dir][f] \in Terminal]_vars

\* the first directory is over and counted, and a closure of the second
\* directory runs
C30_Witness ==
    /\ m_dir = 2
    /\ m_result[1] = "Ok"
    /\ NB["DIRECTORIES"] = 1
    /\ \E g \in FileIdx : m_task[2][g] = "running"
    /\ \A f \in FileIdx : m_task[1][f] \in Terminal

\* C31: at most 4 files are being processed at the same time, between the
\* start of their metadata read and their terminal state.
C31_AtMostFourInProgress ==
    Cardinality({i \in QueueIdx : q_task[i] = "running"}) <= 4

\* four closures run and a file waits for a thread
C31_Witness ==
    /\ Cardinality({i \in QueueIdx : q_task[i] = "running"}) = 4
    /\ \E i \in QueueIdx : q_task[i] = "todo"

\* C32: when the target directory cannot be created the run ends there,
\* with exit(1): no closure has started, no counter has moved, no error is
\* recorded, no summary is printed, and main takes no further step.
C32_SetupFailureExits ==
    m_setup = "Err" =>
        /\ m_pc = "exit(1)"
        /\ \A d \in DirIdx : \A f \in FileIdx : m_task[d][f] = "todo"
        /\ \A c \in CounterNames : NB[c] = 0
        /\ errors_details = <<>>
        /\ m_summary = <<>>
        /\ ~ENABLED NextMain

\* create_sorted_images_dir failed and main has exited
C32_Witness ==
    /\ m_setup = "Err"
    /\ m_pc = "exit(1)"

\* the summary is printed when no closure runs and every closure of every
\* listed directory is over; it lists the first error details, at most ten
C33_PrintedAfterAll ==
    m_pc = "printed" =>
        /\ Running = {}
        /\ \A d \in DirIdx : \A f \in FileIdx :
             m_result[d] = "Ok" => m_task[d][f] \in Terminal
        /\ Len(m_summary[1].errors) <= 10
        /\ m_summary[1].errors =
             SubSeq(errors_details, 1, Len(m_summary[1].errors))
        /\ Len(errors_details) <= 10 => m_summary[1].errors = errors_details

\* C33: on every run that passes setup the summary is eventually printed;
\* it is printed only when every closure of every directory is over, none
\* running, and it lists the first error details, at most ten, in the
\* order they were recorded.
C33_SummaryPrinted ==
    /\ (m_pc = "loop") ~> (m_pc = "printed")
    /\ []C33_PrintedAfterAll

\* the same, a panic of a closure or of main set apart: a run past setup
\* ends with the summary printed or with the panic
C33_PrintedUnlessPanicked ==
    (m_pc = "loop") ~> (m_pc \in {"printed", "panicked"})

\* how many times directory n is in the list
Occurrences(list, n) == Cardinality({i \in 1..Len(list) : list[i] = n})

\* the directories of the tree other than the source directory
ProperDescendants == {n \in NodeIdx \ {1} : t_tree[n].kind # "file"}

\* C34: get_subdirectories_recursive returns every directory below the
\* source directory exactly once and never the source directory; with the
\* source directory pushed by main every directory is in the list exactly
\* once, so every file is in exactly one listed directory, once.
C34_EveryDirectoryOnce ==
    /\ (t_result # <<>> /\ t_result[1].pc = "push") =>
          /\ \A n \in ProperDescendants :
               Occurrences(t_result[1].all_directories, n) = 1
          /\ \A n \in NodeIdx \ ProperDescendants :
               Occurrences(t_result[1].all_directories, n) = 0
    /\ (t_result # <<>> /\ t_result[1].pc = "listed") =>
          /\ \A n \in ProperDescendants \cup {1} :
               Occurrences(t_result[1].all_directories, n) = 1
          /\ Len(t_result[1].all_directories) =
               Cardinality(ProperDescendants) + 1
          /\ \A f \in NodeIdx : t_tree[f].kind = "file" =>
               Occurrences(t_result[1].all_directories, t_tree[f].parent) = 1
    /\ (t_result # <<>> /\ t_result[1].pc = "exit(1)") =>
          \E n \in NodeIdx : t_tree[n].kind = "denied"

\* a tree three levels deep with a file at the bottom has been listed
C34_Witness ==
    /\ t_result # <<>>
    /\ t_result[1].pc = "listed"
    /\ \E a, b, f \in NodeIdx :
         /\ t_tree[a] = [parent |-> 1, kind |-> "dir"]
         /\ t_tree[b] = [parent |-> a, kind |-> "dir"]
         /\ t_tree[f] = [parent |-> b, kind |-> "file"]

\* the closures that are inside image_processed_sorted or
\* image_processed_unsorted, between the two increments
InsideImageProcessed ==
    {f \in FileIdx : task[f].pc \in {"image_processed_sorted_2",
                                      "image_processed_unsorted_2"}}

\* C35: the images counter is at least the sorted plus the unsorted
\* counter at every moment, and equal to it when no closure is between the
\* two increments; a file that ends errored or skipped never added to the
\* images counter.
C35_ImagesCoverSortedAndUnsorted ==
    /\ NB["IMAGES"] >= NB["SORTED_IMAGES"] + NB["UNSORTED_IMAGES"]
    /\ NB["IMAGES"] - (NB["SORTED_IMAGES"] + NB["UNSORTED_IMAGES"])
         = Cardinality(InsideImageProcessed)
    /\ \A f \in FileIdx :
         task[f].pc \in {"error_on_image", "add_error", "errored", "skipped"}
            => credit[f]["IMAGES"] = 0

\* one closure is between its two increments while another file has ended
\* errored and the images counter is ahead
C35_Witness ==
    /\ InsideImageProcessed # {}
    /\ NB["IMAGES"] > NB["SORTED_IMAGES"] + NB["UNSORTED_IMAGES"]
    /\ \E f \in FileIdx : task[f].pc = "errored"

\* the entries of errors_details that name file f
DetailsOf(f) == {i \in 1..Len(errors_details) : errors_details[i][1] = f}

\* C36: the list of error details is never longer than the error counter
\* has grown, and as long once every closure is over; a closure that
\* counted an error records exactly one detail, for its own file, next.
C36_DetailsFollowCounter ==
    /\ Len(errors_details) <= Increase("ERROR_ON_IMAGES")
    /\ batch # "running" => Len(errors_details) = Increase("ERROR_ON_IMAGES")
    /\ \A f \in FileIdx :
         /\ Cardinality(DetailsOf(f)) <= credit[f]["ERROR_ON_IMAGES"]
         /\ credit[f]["ERROR_ON_IMAGES"] <= 1
         /\ credit[f]["ERROR_ON_IMAGES"] = 1 =>
              \/ task[f].pc = "add_error" /\ DetailsOf(f) = {}
              \/ task[f].pc = "errored" /\ Cardinality(DetailsOf(f)) = 1

\* one closure has counted its error and not yet recorded it, another has
\* done both: the list is one short of the counter
C36_Witness ==
    /\ \E f \in FileIdx : task[f].pc = "add_error"
    /\ \E f \in FileIdx : task[f].pc = "errored"
    /\ Len(errors_details) < Increase("ERROR_ON_IMAGES")

RECURSIVE SumOfCounts(_)
\* the sum of the counts of a map of places
SumOfCounts(m) ==
    IF DOMAIN m = {} THEN 0
    ELSE LET k == CHOOSE k \in DOMAIN m : TRUE
         IN  m[k] + SumOfCounts([j \in DOMAIN m \ {k} |-> m[j]])

\* the files of the directory whose metadata extraction succeeded
MetadataRead == {f \in FileIdx : task[f].result = "Ok"}

\* C37: once every closure is over, the counts of the place map have grown
\* by the number of files whose metadata was read, which is the number of
\* files sorted plus the number that failed after their metadata was read:
\* the statistics are recorded before the placement and never withdrawn.
C37_PlacesCountMetadataRead ==
    batch # "running" =>
        /\ SumOfCounts(REPORTING.places_found)
             = start_NB["SORTED_IMAGES"] + Cardinality(MetadataRead)
        /\ Cardinality(MetadataRead)
             = Cardinality({f \in FileIdx : task[f].pc = "sorted"})
               + Cardinality({f \in MetadataRead : task[f].pc = "errored"})
        /\ SumOfCounts(REPORTING.places_found)
             = NB["SORTED_IMAGES"]
               + Cardinality({f \in MetadataRead : task[f].pc = "errored"})

\* every closure is over, one file sorted and one failed after its
\* metadata was read
C37_Witness ==
    /\ batch = "returned"
    /\ \E f \in MetadataRead : task[f].pc = "errored"
    /\ \E f \in MetadataRead : task[f].pc = "sorted"

\* C38: the pipeline never deadlocks. A closure holds no lock, one lock,
\* or the geocoding cache and inside it the performance metrics, never two
\* locks in another order and never a lock during a call into the file
\* system or the geocoder; as long as a closure is not over, some closure
\* can take a step.
C38_NoDeadlock ==
    /\ \A w \in WorkerIdx :
         \/ Len(l_held[w]) <= 1
         \/ l_held[w] = <<"GEOCODING_CACHE", "PERF_METRICS">>
    /\ \A w \in WorkerIdx :
         (l_todo[w] # <<>> /\ Head(l_todo[w]).op = "io") => l_held[w] = <<>>
    /\ (\E w \in WorkerIdx : l_stage[w] # "ended") => ENABLED NextLocks

\* one closure holds the geocoding cache and the metrics inside it while
\* another, its file copied, waits for the metrics
C38_Witness ==
    \E w1, w2 \in WorkerIdx :
        /\ l_held[w1] = <<"GEOCODING_CACHE", "PERF_METRICS">>
        /\ l_stage[w2] = "copy"
        /\ l_todo[w2] # <<>>
        /\ Head(l_todo[w2]) = Lock("PERF_METRICS")

=============================================================================
